---- MODULE Spec2Model ----
(***************************************************************************)
(* A model of the annotation canvas of src/src/App.jsx: the two panes'     *)
(* ink lists with their undo and redo stacks, the two viewport transforms, *)
(* the pointer registry and the gesture dispatcher (pointer down / move /  *)
(* up, wheel, slider), image loads, recenter and resize.                   *)
(*                                                                         *)
(* JavaScript numbers are modelled as exact fractions n/d, extended with   *)
(* the three non-finite values the code can produce: +Infinity (1/0),      *)
(* -Infinity (-1/0) and NaN (0/0).  Rounding of doubles is not modelled.   *)
(***************************************************************************)
EXTENDS Integers, Sequences, FiniteSets, TLC

(***************************************************************************)
(* Numbers                                                                 *)
(***************************************************************************)
Abs(i) == IF i < 0 THEN -i ELSE i

Sign(i) == IF i < 0 THEN -1 ELSE IF i > 0 THEN 1 ELSE 0

RECURSIVE Gcd(_, _)
Gcd(a, b) == IF b = 0 THEN a ELSE Gcd(b, a % b)

\* The fraction n/d in lowest terms with d >= 0; d = 0 gives a non-finite value.
Q(n, d) ==
    IF d = 0 THEN [n |-> Sign(n), d |-> 0]
    ELSE LET g == Gcd(Abs(n), Abs(d))
             s == Sign(d)
         IN  [n |-> (s * n) \div g, d |-> (s * d) \div g]

R(i) == [n |-> i, d |-> 1]

NaN == [n |-> 0, d |-> 0]

Infinity == [n |-> 1, d |-> 0]

IsNaN(a) == a.d = 0 /\ a.n = 0

IsFinite(a) == a.d # 0

\* a + b
RAdd(a, b) ==
    IF IsNaN(a) \/ IsNaN(b) THEN NaN
    ELSE IF a.d = 0 /\ b.d = 0 THEN (IF a.n = b.n THEN a ELSE NaN)
    ELSE IF a.d = 0 THEN a
    ELSE IF b.d = 0 THEN b
    ELSE LET g == Gcd(a.d, b.d)
         IN  Q(a.n * (b.d \div g) + b.n * (a.d \div g), (a.d \div g) * b.d)

RNeg(a) == [n |-> -a.n, d |-> a.d]

\* a - b
RSub(a, b) == RAdd(a, RNeg(b))

\* a * b (Infinity * 0 is NaN)
RMul(a, b) ==
    IF IsNaN(a) \/ IsNaN(b) THEN NaN
    ELSE LET g1 == Gcd(Abs(a.n), b.d)
             g2 == Gcd(Abs(b.n), a.d)
             h1 == IF g1 = 0 THEN 1 ELSE g1
             h2 == IF g2 = 0 THEN 1 ELSE g2
         IN  Q((a.n \div h1) * (b.n \div h2), (a.d \div h2) * (b.d \div h1))

\* a / b (x / 0 is +-Infinity, 0 / 0 and Infinity / Infinity are NaN)
RDiv(a, b) ==
    IF IsNaN(a) \/ IsNaN(b) THEN NaN
    ELSE IF b.n < 0 THEN RMul(a, [n |-> -b.d, d |-> -b.n])
    ELSE RMul(a, [n |-> b.d, d |-> b.n])

\* a < b (false when either is NaN)
RLt(a, b) ==
    /\ ~IsNaN(a)
    /\ ~IsNaN(b)
    /\ IF a.d = 0 /\ b.d = 0 THEN a.n < b.n ELSE a.n * b.d < b.n * a.d

\* a > b
RGt(a, b) == RLt(b, a)

\* a <= b (false when either is NaN)
RLe(a, b) == ~IsNaN(a) /\ ~IsNaN(b) /\ ~RLt(b, a)

\* Math.abs
RAbs(a) == [n |-> Abs(a.n), d |-> a.d]

\* Math.min and Math.max: NaN if either argument is NaN
MathMin(a, b) == IF IsNaN(a) \/ IsNaN(b) THEN NaN ELSE IF RLt(b, a) THEN b ELSE a

MathMax(a, b) == IF IsNaN(a) \/ IsNaN(b) THEN NaN ELSE IF RLt(a, b) THEN b ELSE a

\* The integer square root of a perfect square (the pointer positions of the
\* model are chosen so that every distance between two of them is an integer).
RECURSIVE SqrtIn(_, _, _)
SqrtIn(lo, hi, s) ==
    IF lo >= hi THEN lo
    ELSE LET mid == (lo + hi + 1) \div 2
         IN  IF mid * mid <= s THEN SqrtIn(mid, hi, s) ELSE SqrtIn(lo, mid - 1, s)

ISqrt(s) == SqrtIn(0, IF s < 46340 THEN s ELSE 46340, s)

\* Math.hypot of two integers
Hypot(dx, dy) == R(ISqrt(dx * dx + dy * dy))

(***************************************************************************)
(* Values                                                                  *)
(***************************************************************************)
\* JavaScript null, as a record so that it compares with the other records
Null == [null |-> TRUE]

\* A pointer event's client position (integers; the container's left and top are 0)
Pt(x, y) == [x |-> x, y |-> y]

\* A world point, with JavaScript numbers as coordinates
WPt(x, y) == [x |-> x, y |-> y]

\* The panes' initial transform
InitialTransform == [x |-> R(0), y |-> R(0), k |-> R(1)]

\* The lower and upper limit of the scale factor k
MinK == Q(1, 10)

MaxK == R(10)

\* Half-width of the band around the divider where a pointer-down is ignored
DividerTolerance == Q(5, 100)

\* The margin of fit-to-content
FitMargin == Q(9, 10)

\* (a factor that takes a delta of zero for a step up)
WheelFactorZeroUp(deltaY) == IF deltaY <= 0 THEN Q(11, 10) ELSE Q(9, 10)

\* The factor of one wheel step
WheelFactor(deltaY) == IF deltaY < 0 THEN Q(11, 10) ELSE Q(9, 10)

VARIABLES
    image,                 \* the left pane's image: Null or [id, width, height]
    referenceImage,        \* the right pane's image
    analysisImageRef,      \* the image the analysis canvas was last drawn from, or Null
    analysisCanvas,        \* the image whose pixels the analysis canvas holds, or Null
    tool,                  \* "pen", "eraser", "magnet" or "hand"
    color,                 \* the selected colour
    size,                  \* the selected stroke width
    isComparing,           \* comparison mode
    sliderPos,             \* the divider's position, a fraction of the width
    isDraggingSlider,      \* a slider drag is active
    paths,                 \* the left pane's committed strokes
    history,               \* the left pane's undo stack of stroke lists
    redoStack,             \* the left pane's redo stack
    transform,             \* the left pane's transform [x, y, k]
    currentPath,           \* the left pane's in-progress stroke or Null
    refPaths,              \* the right pane's committed strokes
    refHistory,            \* the right pane's undo stack
    refRedoStack,          \* the right pane's redo stack
    refTransform,          \* the right pane's transform
    currentRefPath,        \* the right pane's in-progress stroke or Null
    pointers,              \* the pointer registry, in insertion order: <<[id, pos], ...>>
    activeSide,            \* "left" or "right"
    gestureState,          \* [lastDist, lastCenter, lastPos]
    isMiddleMousePanning,  \* a middle-button pan is active
    middleMouseLastPos,    \* its last position or Null
    rect,                  \* the container's size [width, height]
    pendingFile,           \* an image being decoded for the left pane, or Null
    pendingRefFile,        \* an image being decoded for the right pane, or Null
    animFrameRef,          \* the handle of the pending frame request, or Null
    rafQueue,              \* browser: the pending animation-frame callbacks <<[id, draw], ...>>
    rendered,              \* React: the state the last render saw (what draw closes over)
    mounted,               \* React: the component is mounted
    shown,                 \* observer: what the draw() calls of the tick just run painted
    calls,                 \* observer: the requestRedraw calls since the last tick
    pressed,               \* environment: the button each pointer holds down, -1 for none
    law,                   \* observer: progress of an edit / undo / redo sequence
    gesture,               \* observer: the ink at the start of the current stroke gesture
    event,                 \* observer: the pointer-down or wheel event just handled, or Null
    viewSteps,             \* observer: the number of zoom and pan steps so far
    snap,                  \* observer: a call of snapToEdge [in, out], or Null
    pinch,                 \* observer: a second pointer was registered and the registry
                           \* has not been empty since
    heap,                  \* the stroke objects and arrays behind the ink, by reference
    worker,                \* service worker: "installing", "installed", "activated", "redundant"
    cacheStorage,          \* service worker: the caches, name -> (url -> stored body, 0 for none)
    fetchEvents,           \* service worker: the fetch events and where their promise chains are
    puts,                  \* service worker: the cache.put calls that have not finished
    network                \* environment: the version of the site the server serves

inkVars == <<paths, history, redoStack, refPaths, refHistory, refRedoStack>>

viewVars == <<transform, refTransform>>

strokeVars == <<currentPath, currentRefPath>>

pointerVars == <<pointers, activeSide, gestureState, isMiddleMousePanning, middleMouseLastPos>>

uiVars == <<tool, color, size, isComparing, sliderPos, isDraggingSlider, rect>>

imageVars == <<image, referenceImage>>

cacheVars == <<analysisImageRef, analysisCanvas>>

loaderVars == <<pendingFile, pendingRefFile>>

frameVars == <<animFrameRef, rafQueue, rendered, mounted>>

envVars == <<pressed, law, gesture, event, viewSteps, shown, calls, snap, pinch, heap>>

workerVars == <<worker, cacheStorage, fetchEvents, puts, network>>

progVars == <<inkVars, viewVars, strokeVars, pointerVars, uiVars, imageVars, cacheVars>>

vars == <<progVars, loaderVars, frameVars, envVars, workerVars>>

(***************************************************************************)
(* Pure helpers of the handlers                                            *)
(***************************************************************************)
\* xPct = (e.clientX - rect.left) / rect.width
XPct(pos) == RDiv(R(pos.x), R(rect.width))

\* JavaScript falsiness of a number (0 and NaN), as used by `lastDist || dist`
Falsy(a) == IsNaN(a) \/ (a.d # 0 /\ a.n = 0)

\* (screen - centre) / k - offset, per coordinate
ToWorld(pos, cx, cy, t) ==
    WPt(RSub(RDiv(RSub(R(pos.x), cx), t.k), t.x),
        RSub(RDiv(RSub(R(pos.y), cy), t.k), t.y))

\* The left pane's screen-to-world conversion
ToWorkspaceWorld(pos) ==
    ToWorld(pos, RDiv(R(rect.width), R(2)), RDiv(R(rect.height), R(2)), transform)

\* The right pane's screen-to-world conversion
ToReferenceWorld(pos) ==
    LET availW == RMul(R(rect.width), RSub(R(1), sliderPos))
        startX == RMul(R(rect.width), sliderPos)
    IN  ToWorld(pos, RAdd(startX, RDiv(availW, R(2))), RDiv(R(rect.height), R(2)),
                refTransform)

\* ctx.translate(cx, cy); ctx.scale(k, k); ctx.translate(x, y): where a world
\* point is painted, in CSS pixels
ToScreen(wp, cx, cy, t) ==
    WPt(RAdd(cx, RMul(t.k, RAdd(wp.x, t.x))), RAdd(cy, RMul(t.k, RAdd(wp.y, t.y))))

\* Where drawWorkspace paints a world point of the left pane
DrawWorkspaceAt(wp) ==
    LET leftPaneWidth == RMul(R(rect.width), sliderPos)
        cx == IF isComparing THEN RDiv(leftPaneWidth, R(2)) ELSE RDiv(R(rect.width), R(2))
    IN  ToScreen(wp, cx, RDiv(R(rect.height), R(2)), transform)

\* Where drawReference paints a world point of the right pane (nowhere while
\* there is no reference image)
DrawReferenceAt(wp) ==
    LET availW == RMul(R(rect.width), RSub(R(1), sliderPos))
        startX == RMul(R(rect.width), sliderPos)
    IN  IF referenceImage = Null THEN Null
        ELSE ToScreen(wp, RAdd(startX, RDiv(availW, R(2))), RDiv(R(rect.height), R(2)),
                      refTransform)

GetDist(p1, p2) == Hypot(p1.x - p2.x, p1.y - p2.y)

GetCenter(p1, p2) == WPt(Q(p1.x + p2.x, 2), Q(p1.y + p2.y, 2))

\* Math.max(0.1, Math.min(k, 10))
ClampK(k) == MathMax(MinK, MathMin(k, MaxK))

\* t.x += dx / t.k; t.y += dy / t.k
PanBy(t, dx, dy) ==
    [t EXCEPT !.x = RAdd(t.x, RDiv(dx, t.k)), !.y = RAdd(t.y, RDiv(dy, t.k))]

\* Math.min(availW / img.width, availH / img.height) * 0.9
ScaleFit(availW, availH, img) ==
    RMul(MathMin(RDiv(availW, R(img.width)), RDiv(availH, R(img.height))), FitMargin)

\* The width available to the left pane, for the given mode and divider position
LeftAvailW(r, comparing, slider) ==
    IF comparing THEN RMul(R(r.width), slider) ELSE R(r.width)

\* The width available to the right pane
RightAvailW(r, slider) == RMul(R(r.width), RSub(R(1), slider))

\* The transform fitted to an image in a container of size r
FitTransform(availW, r, img) ==
    [x |-> R(0), y |-> R(0), k |-> ScaleFit(availW, R(r.height), img)]

\* Map.prototype.has / set / delete on the registry (a Map keeps insertion order,
\* and set on a present key keeps the key's place)
MapHas(ps, id) == \E i \in 1..Len(ps) : ps[i].id = id

MapSet(ps, id, pos) ==
    IF MapHas(ps, id)
    THEN [i \in 1..Len(ps) |-> IF ps[i].id = id THEN [id |-> id, pos |-> pos] ELSE ps[i]]
    ELSE Append(ps, [id |-> id, pos |-> pos])

MapDelete(ps, id) == SelectSeq(ps, LAMBDA e : e.id # id)

\* Math.hypot(dx, dy) > m for JavaScript numbers dx, dy and an integer m >= 0
HypotGt(dx, dy, m) ==
    IF (dx.d = 0 /\ dx.n # 0) \/ (dy.d = 0 /\ dy.n # 0) THEN TRUE
    ELSE IF IsNaN(dx) \/ IsNaN(dy) THEN FALSE
    ELSE RGt(RAdd(RMul(dx, dx), RMul(dy, dy)), R(m * m))

\* (one spacing for every tool)
MinDistanceOne(t) == 1

\* The minimum spacing of two consecutive points of a stroke
MinDistance(t) == IF t = "magnet" THEN 3 ELSE 1

\* The stroke created by a pointer-down
NewPath(wp) == [points |-> <<wp>>, color |-> color, size |-> size, isEraser |-> (tool = "eraser")]

\* (a routing that knows the left pane only)
SideOfLeft(pos) == "left"

\* The side a position is routed to
SideOf(pos) == IF isComparing /\ RGt(XPct(pos), sliderPos) THEN "right" ELSE "left"

\* Whether a pointer-down at pos falls in the divider's tolerance band
InDividerBand(pos) ==
    isComparing /\ RLt(RAbs(RSub(XPct(pos), sliderPos)), DividerTolerance)

(***************************************************************************)
(* snapToEdge, the edge snap of the magnet tool.  Its arithmetic is long,  *)
(* so every operand is evaluated once, bound to a name, and then used.     *)
(***************************************************************************)
\* F(a) and F(a, b), with a and b evaluated once
Once(F(_), a) == CHOOSE r \in {F(x) : x \in {a}} : TRUE

Once2(F(_, _), a, b) == CHOOSE r \in {F(x, y) : x \in {a}, y \in {b}} : TRUE

Add(a, b) == Once2(RAdd, a, b)

Sub(a, b) == Once2(RSub, a, b)

Mul(a, b) == Once2(RMul, a, b)

Div(a, b) == Once2(RDiv, a, b)

\* Math.round of a finite number: the nearest integer, halves upwards
MathRound(a) ==
    Once(LAMBDA b : IF b.n >= 0 THEN b.n \div b.d ELSE -((-b.n + b.d - 1) \div b.d),
         RAdd(a, Q(1, 2)))

\* The square root of a finite number >= 0: exact if it is rational, rounded
\* down to a multiple of 1/64 if not
RSqrt(a) ==
    Once2(LAMBDA v, r :
              IF r[1] * r[1] = v.n /\ r[2] * r[2] = v.d THEN Q(r[1], r[2])
              ELSE Q(ISqrt((v.n * 4096) \div v.d), 64),
          a, <<ISqrt(a.n), ISqrt(a.d)>>)

\* Math.hypot of two finite numbers
RHypot(a, b) == Once(RSqrt, Add(Mul(a, a), Mul(b, b)))

\* The images the magnet tool is tried on, 20 x 8 pixels: 5 is uniformly grey
\* and opaque; 6 has a faint vertical edge (grey 100 | 102) between the columns
\* 9 and 10; 7 has a strong vertical edge (black | grey 200) between the
\* columns 15 and 16; 8 is black, transparent above row 4 and opaque from it on.
SnapImages == {[id |-> i, width |-> 20, height |-> 8] : i \in 5..8}

\* getImageData: the pixel [r, g, b, a] of an image
Pixel(img, px, py) ==
    LET Grey(v, a) == [r |-> v, g |-> v, b |-> v, a |-> a]
    IN  CASE img.id = 6 -> Grey(IF px < 10 THEN 100 ELSE 102, 255)
          [] img.id = 7 -> Grey(IF px < 16 THEN 0 ELSE 200, 255)
          [] img.id = 8 -> Grey(0, IF py < 4 THEN 0 ELSE 255)
          [] OTHER -> Grey(100, 255)

\* lum: the luminance of a pixel, weighted by its alpha
Lum(img, px, py) ==
    Once(LAMBDA p : Mul(Q(p.r * 299 + p.g * 587 + p.b * 114, 1000), Q(p.a, 255)),
         Pixel(img, px, py))

\* The luminance gradient at a pixel
Gradient(img, px, py) ==
    [x |-> Sub(Lum(img, px + 1, py), Lum(img, px - 1, py)),
     y |-> Sub(Lum(img, px, py + 1), Lum(img, px, py - 1))]

\* alphaGrad
AlphaGradient(img, px, py) ==
    Div(RHypot(R(Pixel(img, px + 1, py).a - Pixel(img, px - 1, py).a),
               R(Pixel(img, px, py + 1).a - Pixel(img, px, py - 1).a)),
        R(255))

\* edgeStrength = gradMag + alphaGrad * 80
EdgeStrength(img, px, py) ==
    Once(LAMBDA g : Add(RHypot(g.x, g.y), Mul(AlphaGradient(img, px, py), R(80))),
         Gradient(img, px, py))

\* (no floor: every pixel is a candidate)
BelowFloorNever(edgeStrength) == FALSE

\* if (edgeStrength < 5) continue
BelowFloor(edgeStrength) == RLt(edgeStrength, R(5))

NoDirection == [has |-> FALSE, x |-> R(0), y |-> R(0)]

\* One segment of the loop over the previous points: the sums [x, y, w] of the
\* weighted unit vectors and of the weights, with the segment from point i
DirStep(pp, i, acc) ==
    Once2(LAMBDA seg, segLen :
              IF RLt(segLen, Q(1, 2)) THEN acc
              ELSE Once(LAMBDA weight :
                            [x |-> Add(acc.x, Mul(Div(seg.x, segLen), weight)),
                             y |-> Add(acc.y, Mul(Div(seg.y, segLen), weight)),
                             w |-> Add(acc.w, weight)],
                        Add(R(1), Mul(R(Len(pp) - i), Q(3, 10)))),
          [x |-> Sub(pp[i + 1].x, pp[i].x), y |-> Sub(pp[i + 1].y, pp[i].y)],
          RHypot(Sub(pp[i + 1].x, pp[i].x), Sub(pp[i + 1].y, pp[i].y)))

\* The loop over the segments i .. len - 1
RECURSIVE DirSum(_, _, _)
DirSum(pp, i, acc) ==
    IF i >= Len(pp) THEN acc
    ELSE Once(LAMBDA next : DirSum(pp, i + 1, next), DirStep(pp, i, acc))

\* Whether an argument that is an array or null is null (an array of one
\* element and the record Null have no common type to compare them by)
IsNullArray(a) == ToString(a) = ToString(Null)

\* The drawing direction [has, x, y] from the previous points
Direction(prevPoints) ==
    IF IsNullArray(prevPoints) THEN NoDirection
    ELSE IF Len(prevPoints) < 3 THEN NoDirection
    ELSE Once(LAMBDA sum :
                  IF ~RGt(sum.w, R(0)) THEN NoDirection
                  ELSE Once(LAMBDA d :
                                IF ~RGt(d.len, Q(1, 10)) THEN NoDirection
                                ELSE [has |-> TRUE,
                                      x |-> Div(d.x, d.len), y |-> Div(d.y, d.len)],
                            [x |-> Div(sum.x, sum.w), y |-> Div(sum.y, sum.w),
                             len |-> RHypot(Div(sum.x, sum.w), Div(sum.y, sum.w))]),
              DirSum(prevPoints,
                     Len(prevPoints) - (IF Len(prevPoints) < 25 THEN Len(prevPoints) ELSE 25)
                         + 1,
                     [x |-> R(0), y |-> R(0), w |-> R(0)]))

\* The score of an edge pixel at the offset (dx, dy) from the cursor's pixel,
\* with a drawing direction: edgeStrength + orientationBonus - penalty
DirectedScore(es, g, gradMag, dir, dx, dy) ==
    LET parallelDist == RAbs(Add(Mul(dx, dir.x), Mul(dy, dir.y)))
        perpDist     == RAbs(Add(Mul(dx, RNeg(dir.y)), Mul(dy, dir.x)))
        edgeDirX == IF RGt(gradMag, Q(1, 10)) THEN Div(g.x, gradMag) ELSE R(0)
        edgeDirY == IF RGt(gradMag, Q(1, 10)) THEN Div(g.y, gradMag) ELSE R(0)
        orientationBonus ==
            Mul(RAbs(Add(Mul(edgeDirX, dir.x), Mul(edgeDirY, dir.y))), R(15))
        penalty == Add(Mul(perpDist, R(8)), Mul(parallelDist, Q(3, 2)))
    IN  Sub(Add(es, orientationBonus), penalty)

\* The score of the pixel (px, py) for a cursor at the pixel (imgX, imgY), or
\* Null if the pixel is skipped
Score(img, imgX, imgY, dir, px, py) ==
    Once2(LAMBDA es, g :
              IF BelowFloor(es) THEN Null
              ELSE IF dir.has
              THEN Once(LAMBDA gradMag :
                            DirectedScore(es, g, gradMag, dir, R(px - imgX), R(py - imgY)),
                        RHypot(g.x, g.y))
              ELSE Sub(es, Mul(RHypot(R(px - imgX), R(py - imgY)), R(5))),
          EdgeStrength(img, px, py), Gradient(img, px, py))

\* Of the pixels whose score is greater than -1, the first, row by row, of the
\* greatest score: the pixel the two loops over the window end with
FirstBest(found, imgX, imgY) ==
    IF found = {} THEN [x |-> imgX, y |-> imgY, score |-> R(-1)]
    ELSE CHOOSE c \in found :
             \A d \in found :
                 \/ RGt(c.score, d.score)
                 \/ c.score = d.score /\ (c.y < d.y \/ (c.y = d.y /\ c.x <= d.x))

\* The two loops over the window
ScanBest(img, dir, win) ==
    Once(LAMBDA scored :
             Once(LAMBDA found : FirstBest(found, win.imgX, win.imgY),
                  {c \in scored : c.score # Null /\ RGt(c.score, R(-1))}),
         {[x |-> px, y |-> py, score |-> Score(img, win.imgX, win.imgY, dir, px, py)] :
              px \in win.startX..(win.endX - 1), py \in win.startY..(win.endY - 1)})

\* (no clamp: the best pixel as it is)
ClampSnapNone(worldX, worldY, snapX, snapY) == WPt(snapX, snapY)

\* The clamp of the snap to 6 from the cursor
ClampSnap(worldX, worldY, snapX, snapY) ==
    Once2(LAMBDA d, snapDist :
              IF RGt(snapDist, R(6))
              THEN WPt(Add(worldX, Mul(d.x, Div(R(6), snapDist))),
                       Add(worldY, Mul(d.y, Div(R(6), snapDist))))
              ELSE WPt(snapX, snapY),
          [x |-> Sub(snapX, worldX), y |-> Sub(snapY, worldY)],
          RHypot(Sub(snapX, worldX), Sub(snapY, worldY)))

\* (a window that starts at the image's first column and row)
SnapWindowFromZero(worldX, worldY, img) ==
    Once2(LAMBDA imgX, imgY :
              [imgX |-> imgX, imgY |-> imgY,
               startX |-> IF imgX - 8 > 0 THEN imgX - 8 ELSE 0,
               startY |-> IF imgY - 8 > 0 THEN imgY - 8 ELSE 0,
               endX |-> IF imgX + 8 < img.width - 1 THEN imgX + 8 ELSE img.width - 1,
               endY |-> IF imgY + 8 < img.height - 1 THEN imgY + 8 ELSE img.height - 1],
          MathRound(RAdd(worldX, Q(img.width, 2))),
          MathRound(RAdd(worldY, Q(img.height, 2))))

\* The window of candidate pixels around the cursor
SnapWindow(worldX, worldY, img) ==
    Once2(LAMBDA imgX, imgY :
              [imgX |-> imgX, imgY |-> imgY,
               startX |-> IF imgX - 8 > 1 THEN imgX - 8 ELSE 1,
               startY |-> IF imgY - 8 > 1 THEN imgY - 8 ELSE 1,
               endX |-> IF imgX + 8 < img.width - 1 THEN imgX + 8 ELSE img.width - 1,
               endY |-> IF imgY + 8 < img.height - 1 THEN imgY + 8 ELSE img.height - 1],
          MathRound(RAdd(worldX, Q(img.width, 2))),
          MathRound(RAdd(worldY, Q(img.height, 2))))

\* The rectangle [x, y, w, h] that getImageData extracts: the window with a
\* margin of one pixel, cut to the image
PadWindow(img, win) ==
    LET padStartX == IF win.startX - 1 > 0 THEN win.startX - 1 ELSE 0
        padStartY == IF win.startY - 1 > 0 THEN win.startY - 1 ELSE 0
    IN  [x |-> padStartX, y |-> padStartY,
         w |-> (IF img.width < win.endX + 2 THEN img.width ELSE win.endX + 2) - padStartX,
         h |-> (IF img.height < win.endY + 2 THEN img.height ELSE win.endY + 2) - padStartY]

\* The pixels the two loops over the window read: the four neighbours of every
\* candidate, for the luminance gradient and for the alpha gradient
PixelReads(win) ==
    UNION {{Pt(px + 1, py), Pt(px - 1, py), Pt(px, py + 1), Pt(px, py - 1)} :
               px \in win.startX..(win.endX - 1), py \in win.startY..(win.endY - 1)}

\* Whether a call of snapToEdge gets as far as the analysis canvas: it has a
\* target image and a window of more than 2 x 2 candidate pixels
ReadsPixels(worldX, worldY, targetImage) ==
    /\ targetImage # Null
    /\ \E win \in {SnapWindow(worldX, worldY, targetImage)} :
           win.endX - win.startX > 2 /\ win.endY - win.startY > 2

\* (a cache that tells the images apart by their size)
StaleBySize(targetImage) ==
    \/ analysisImageRef = Null
    \/ analysisImageRef.width # targetImage.width
    \/ analysisImageRef.height # targetImage.height

\* if (analysisImageRef.current !== targetImage)
Stale(targetImage) == analysisImageRef # targetImage

\* The image whose pixels the analysis canvas holds when getImageData reads
\* it: a stale canvas has just been resized and drawn from the target
AnalysisPixels(targetImage) ==
    IF Stale(targetImage) THEN targetImage ELSE analysisCanvas

\* What a call of snapToEdge leaves in the cache; call is the call's arguments
\* [x, y, image, prevPoints], or Null if the handler makes no call
CacheAfterSnap(call) ==
    IF call # Null /\ ReadsPixels(call.x, call.y, call.image) /\ Stale(call.image)
    THEN analysisImageRef' = call.image /\ analysisCanvas' = call.image
    ELSE UNCHANGED cacheVars

snapToEdge(worldX, worldY, targetImage, prevPoints) ==
    IF targetImage = Null THEN WPt(worldX, worldY)
    ELSE Once(LAMBDA win :
                  IF win.endX - win.startX <= 2 \/ win.endY - win.startY <= 2
                  THEN WPt(worldX, worldY)
                  ELSE Once(LAMBDA best :
                                IF RLt(best.score, R(5)) THEN WPt(worldX, worldY)
                                ELSE ClampSnap(worldX, worldY,
                                               RSub(R(best.x), Q(targetImage.width, 2)),
                                               RSub(R(best.y), Q(targetImage.height, 2))),
                            Once(LAMBDA dir : ScanBest(AnalysisPixels(targetImage), dir, win),
                                 Direction(prevPoints))),
              SnapWindow(worldX, worldY, targetImage))

\* a * wa + b * wb, per coordinate
Blend(a, wa, b, wb) ==
    WPt(Add(Mul(a.x, wa), Mul(b.x, wb)), Add(Mul(a.y, wa), Mul(b.y, wb)))

\* (no clamp: the smoothed point as it is)
ClampDriftNone(rawWp, wp) == wp

\* The hard clamp of the drift from the raw cursor position to maxDrift = 4
ClampDrift(rawWp, wp) ==
    Once2(LAMBDA d, driftDist :
              IF RGt(driftDist, R(4))
              THEN WPt(Add(rawWp.x, Mul(d.x, Div(R(4), driftDist))),
                       Add(rawWp.y, Mul(d.y, Div(R(4), driftDist))))
              ELSE wp,
          [x |-> Sub(wp.x, rawWp.x), y |-> Sub(wp.y, rawWp.y)],
          RHypot(Sub(wp.x, rawWp.x), Sub(wp.y, rawWp.y)))

\* The point of a pointer-move with the magnet tool: the raw position blended
\* 20/80 with the snapped one, smoothed 70/30 with the stroke's last point,
\* and clamped
MagnetPoint(rawWp, snapped, pp) ==
    Once(LAMBDA smoothed : ClampDrift(rawWp, smoothed),
         Once(LAMBDA blended :
                  IF Len(pp) >= 1
                  THEN Blend(blended, Q(7, 10), pp[Len(pp)], Q(3, 10))
                  ELSE blended,
              Blend(rawWp, Q(1, 5), snapped, Q(4, 5))))

(***************************************************************************)
(* The pointer handlers of the canvas                                      *)
(***************************************************************************)
\* The middle-button branch of handlePointerDown
MiddleDown(pos) ==
    /\ isMiddleMousePanning' = TRUE
    /\ middleMouseLastPos' = pos
    /\ activeSide' = SideOf(pos)
    /\ UNCHANGED <<pointers, gestureState, strokeVars>>

\* What the arrival of a second pointer leaves of an in-progress stroke
\* (an arrival that keeps the stroke)
PinchStrokeKept(path) == path

PinchStroke(path) == Null

\* The call of snapToEdge that the start of a stroke makes, [x, y, image,
\* prevPoints], or Null if it makes none
SnapCallOfStart(id, pos) ==
    LET side      == SideOf(pos)
        wp        == IF side = "left" THEN ToWorkspaceWorld(pos) ELSE ToReferenceWorld(pos)
        targetImg == IF side = "left" THEN image ELSE referenceImage
    IN  IF Len(MapSet(pointers, id, pos)) = 1 /\ tool = "magnet" /\ targetImg # Null
        THEN [x |-> wp.x, y |-> wp.y, image |-> targetImg, prevPoints |-> Null]
        ELSE Null

\* The call of snapToEdge that handlePointerDown makes, or Null
SnapCallOfDown(id, pos, button) ==
    IF button = 1 \/ InDividerBand(pos) THEN Null ELSE SnapCallOfStart(id, pos)

\* The first point of a stroke: the raw position, blended 30/70 with the
\* snapped one if snapToEdge is called
StartPoint(wp, call) ==
    IF call = Null THEN wp
    ELSE Once(LAMBDA snapped : Blend(wp, Q(3, 10), snapped, Q(7, 10)),
              snapToEdge(call.x, call.y, call.image, call.prevPoints))

\* The registration of a pointer and the start of a pinch, a pan or a stroke
RegisterDown(id, pos) ==
    LET side == SideOf(pos)
        pts  == MapSet(pointers, id, pos)
        wp   == StartPoint(IF side = "left" THEN ToWorkspaceWorld(pos)
                           ELSE ToReferenceWorld(pos),
                           SnapCallOfStart(id, pos))
    IN  /\ activeSide' = side
        /\ pointers' = pts
        /\ UNCHANGED <<isMiddleMousePanning, middleMouseLastPos>>
        /\ IF Len(pts) = 2
           THEN /\ currentPath' = PinchStroke(currentPath)
                /\ currentRefPath' = PinchStroke(currentRefPath)
                /\ gestureState' =
                       [gestureState EXCEPT !.lastDist = GetDist(pts[1].pos, pts[2].pos),
                                            !.lastCenter = GetCenter(pts[1].pos, pts[2].pos)]
           ELSE IF Len(pts) = 1
           THEN IF tool = "hand"
                THEN /\ gestureState' = [gestureState EXCEPT !.lastPos = pos]
                     /\ UNCHANGED strokeVars
                ELSE /\ IF side = "left"
                        THEN currentPath' = Once(NewPath, wp) /\ UNCHANGED currentRefPath
                        ELSE currentRefPath' = Once(NewPath, wp) /\ UNCHANGED currentPath
                     /\ UNCHANGED gestureState
           ELSE UNCHANGED <<gestureState, strokeVars>>

handlePointerDown(id, pos, button) ==
    /\ IF button = 1 THEN MiddleDown(pos)
       ELSE IF InDividerBand(pos) THEN UNCHANGED <<pointerVars, strokeVars>>
       ELSE RegisterDown(id, pos)
    /\ CacheAfterSnap(SnapCallOfDown(id, pos, button))
    /\ UNCHANGED <<inkVars, viewVars, uiVars, imageVars>>

\* The transform of the active side becomes t
SetActiveTransform(t) ==
    IF activeSide = "left"
    THEN transform' = t /\ UNCHANGED refTransform
    ELSE refTransform' = t /\ UNCHANGED transform

ActiveTransform == IF activeSide = "left" THEN transform ELSE refTransform

\* The middle-button branch of handlePointerMove
MiddleMove(pos) ==
    LET last == middleMouseLastPos
    IN  /\ SetActiveTransform(PanBy(ActiveTransform, R(pos.x - last.x), R(pos.y - last.y)))
        /\ middleMouseLastPos' = pos
        /\ UNCHANGED <<pointers, activeSide, gestureState, isMiddleMousePanning, strokeVars>>

\* The transform after one two-pointer move: zoom by dist / lastDist, clamp,
\* then pan by the midpoint's movement
PinchTransform(t, dist, lastDist, center, lastCenter) ==
    LET zoom == RDiv(dist, lastDist)
        t1   == [t EXCEPT !.k = ClampK(RMul(t.k, zoom))]
    IN  PanBy(t1, RSub(center.x, lastCenter.x), RSub(center.y, lastCenter.y))

\* The two-pointer branch of handlePointerMove
PinchMove(pts) ==
    LET dist       == GetDist(pts[1].pos, pts[2].pos)
        center     == GetCenter(pts[1].pos, pts[2].pos)
        lastDist   == IF Falsy(gestureState.lastDist) THEN dist ELSE gestureState.lastDist
        lastCenter == IF gestureState.lastCenter = Null THEN center
                      ELSE gestureState.lastCenter
    IN  /\ SetActiveTransform(PinchTransform(ActiveTransform, dist, lastDist, center, lastCenter))
        /\ gestureState' = [gestureState EXCEPT !.lastDist = dist, !.lastCenter = center]
        /\ UNCHANGED strokeVars

\* The hand-tool branch of handlePointerMove
HandMove(pos) ==
    LET last == IF gestureState.lastPos = Null THEN pos ELSE gestureState.lastPos
    IN  /\ SetActiveTransform(PanBy(ActiveTransform, R(pos.x - last.x), R(pos.y - last.y)))
        /\ gestureState' = [gestureState EXCEPT !.lastPos = pos]
        /\ UNCHANGED strokeVars

\* The stroke after a drawing move to world point wp: the point is appended
\* when it is farther than the minimum spacing from the stroke's last point
Extended(path, wp) ==
    LET pp   == path.points
        last == pp[Len(pp)]
    IN  IF HypotGt(RSub(wp.x, last.x), RSub(wp.y, last.y), MinDistance(tool))
        THEN [path EXCEPT !.points = Append(pp, wp)]
        ELSE path

\* The call of snapToEdge that handlePointerMove makes, or Null if it makes
\* none
SnapCallOfMove(id, pos) ==
    LET targetPath == IF activeSide = "left" THEN currentPath ELSE currentRefPath
        targetImg  == IF activeSide = "left" THEN image ELSE referenceImage
        wp == IF activeSide = "left" THEN ToWorkspaceWorld(pos) ELSE ToReferenceWorld(pos)
    IN  IF /\ ~isMiddleMousePanning
           /\ MapHas(pointers, id)
           /\ Len(pointers) = 1
           /\ tool = "magnet"
           /\ targetPath # Null
           /\ targetImg # Null
        THEN [x |-> wp.x, y |-> wp.y, image |-> targetImg, prevPoints |-> targetPath.points]
        ELSE Null

\* The point of a drawing move: the raw position, or the magnet's point if
\* snapToEdge is called
MovePoint(wp, call) ==
    IF call = Null THEN wp
    ELSE Once(LAMBDA snapped : MagnetPoint(wp, snapped, call.prevPoints),
              snapToEdge(call.x, call.y, call.image, call.prevPoints))

\* The drawing branch of handlePointerMove
DrawMove(id, pos) ==
    /\ IF activeSide = "left"
       THEN /\ currentPath' = IF currentPath = Null THEN Null
                              ELSE Once2(Extended, currentPath,
                                         MovePoint(ToWorkspaceWorld(pos),
                                                   SnapCallOfMove(id, pos)))
            /\ UNCHANGED currentRefPath
       ELSE /\ currentRefPath' = IF currentRefPath = Null THEN Null
                                 ELSE Once2(Extended, currentRefPath,
                                            MovePoint(ToReferenceWorld(pos),
                                                      SnapCallOfMove(id, pos)))
            /\ UNCHANGED currentPath
    /\ UNCHANGED <<gestureState, viewVars>>

handlePointerMove(id, pos) ==
    /\ IF isMiddleMousePanning THEN MiddleMove(pos)
       ELSE IF ~MapHas(pointers, id) THEN UNCHANGED <<pointerVars, strokeVars, viewVars>>
       ELSE LET pts == MapSet(pointers, id, pos)
            IN  /\ pointers' = pts
                /\ UNCHANGED <<activeSide, isMiddleMousePanning, middleMouseLastPos>>
                /\ IF Len(pts) = 2 THEN PinchMove(pts)
                   ELSE IF Len(pts) = 1
                   THEN IF tool = "hand" THEN HandMove(pos) ELSE DrawMove(id, pos)
                   ELSE UNCHANGED <<gestureState, strokeVars, viewVars>>
    /\ CacheAfterSnap(SnapCallOfMove(id, pos))
    /\ UNCHANGED <<inkVars, uiVars, imageVars>>

\* The commit of an in-progress stroke: the undo stack, redo stack and stroke
\* list of a pane after the stroke cur is committed to it
\* (a commit that pushes the live array instead of a copy of it)
CommitHistoryNoCopy(h, ps, cur) == Append(h, Append(ps, cur))

CommitHistory(h, ps, cur) == Append(h, ps)

\* (a commit that keeps the redo stack)
CommitRedoKept(r) == r

CommitRedo(r) == << >>

CommitPaths(ps, cur) == Append(ps, cur)

handlePointerUp(id, button) ==
    IF isMiddleMousePanning /\ button = 1
    THEN /\ isMiddleMousePanning' = FALSE
         /\ middleMouseLastPos' = Null
         /\ UNCHANGED <<pointers, activeSide, gestureState, strokeVars,
                        inkVars, viewVars, uiVars, imageVars, cacheVars>>
    ELSE LET pts == MapDelete(pointers, id)
         IN  /\ pointers' = pts
             /\ IF currentPath # Null
                THEN /\ history' = CommitHistory(history, paths, currentPath)
                     /\ redoStack' = CommitRedo(redoStack)
                     /\ paths' = CommitPaths(paths, currentPath)
                ELSE UNCHANGED <<history, redoStack, paths>>
             /\ currentPath' = Null
             /\ IF currentRefPath # Null
                THEN /\ refHistory' = CommitHistory(refHistory, refPaths, currentRefPath)
                     /\ refRedoStack' = CommitRedo(refRedoStack)
                     /\ refPaths' = CommitPaths(refPaths, currentRefPath)
                ELSE UNCHANGED <<refHistory, refRedoStack, refPaths>>
             /\ currentRefPath' = Null
             /\ gestureState' = IF Len(pts) = 1
                                THEN [gestureState EXCEPT !.lastPos = pts[1].pos]
                                ELSE gestureState
             /\ UNCHANGED <<activeSide, isMiddleMousePanning, middleMouseLastPos,
                            viewVars, uiVars, imageVars, cacheVars>>

(***************************************************************************)
(* Undo, redo and clear                                                    *)
(***************************************************************************)
\* Array.prototype.pop: the last element, and the rest
Top(st) == st[Len(st)]

Pop(st) == SubSeq(st, 1, Len(st) - 1)

\* (an undo that saves the current list before it looks at the undo stack)
handleUndoUnguarded ==
    /\ redoStack' = Append(redoStack, paths)
    /\ IF Len(history) > 0
       THEN paths' = Top(history) /\ history' = Pop(history)
       ELSE UNCHANGED <<paths, history>>
    /\ UNCHANGED <<refPaths, refHistory, refRedoStack,
                   viewVars, strokeVars, pointerVars, uiVars, imageVars, cacheVars>>

handleUndo ==
    /\ IF Len(history) > 0
       THEN /\ redoStack' = Append(redoStack, paths)
            /\ paths' = Top(history)
            /\ history' = Pop(history)
       ELSE UNCHANGED <<paths, history, redoStack>>
    /\ UNCHANGED <<refPaths, refHistory, refRedoStack,
                   viewVars, strokeVars, pointerVars, uiVars, imageVars, cacheVars>>

handleRedo ==
    /\ IF Len(redoStack) > 0
       THEN /\ history' = Append(history, paths)
            /\ paths' = Top(redoStack)
            /\ redoStack' = Pop(redoStack)
       ELSE UNCHANGED <<paths, history, redoStack>>
    /\ UNCHANGED <<refPaths, refHistory, refRedoStack,
                   viewVars, strokeVars, pointerVars, uiVars, imageVars, cacheVars>>

handleRefUndo ==
    /\ IF Len(refHistory) > 0
       THEN /\ refRedoStack' = Append(refRedoStack, refPaths)
            /\ refPaths' = Top(refHistory)
            /\ refHistory' = Pop(refHistory)
       ELSE UNCHANGED <<refPaths, refHistory, refRedoStack>>
    /\ UNCHANGED <<paths, history, redoStack,
                   viewVars, strokeVars, pointerVars, uiVars, imageVars, cacheVars>>

handleRefRedo ==
    /\ IF Len(refRedoStack) > 0
       THEN /\ refHistory' = Append(refHistory, refPaths)
            /\ refPaths' = Top(refRedoStack)
            /\ refRedoStack' = Pop(refRedoStack)
       ELSE UNCHANGED <<refPaths, refHistory, refRedoStack>>
    /\ UNCHANGED <<paths, history, redoStack,
                   viewVars, strokeVars, pointerVars, uiVars, imageVars, cacheVars>>

\* (a clear that takes no snapshot)
handleClearNoSnapshot ==
    /\ redoStack' = << >>
    /\ paths' = << >>
    /\ UNCHANGED <<history, refPaths, refHistory, refRedoStack,
                   viewVars, strokeVars, pointerVars, uiVars, imageVars, cacheVars>>

handleClear ==
    /\ history' = Append(history, paths)
    /\ redoStack' = << >>
    /\ paths' = << >>
    /\ UNCHANGED <<refPaths, refHistory, refRedoStack,
                   viewVars, strokeVars, pointerVars, uiVars, imageVars, cacheVars>>

\* (a clear of the right pane that clears the left pane's list as well)
handleRefClearBoth ==
    /\ refHistory' = Append(refHistory, refPaths)
    /\ refRedoStack' = << >>
    /\ refPaths' = << >>
    /\ paths' = << >>
    /\ UNCHANGED <<history, redoStack,
                   viewVars, strokeVars, pointerVars, uiVars, imageVars, cacheVars>>

handleRefClear ==
    /\ refHistory' = Append(refHistory, refPaths)
    /\ refRedoStack' = << >>
    /\ refPaths' = << >>
    /\ UNCHANGED <<paths, history, redoStack,
                   viewVars, strokeVars, pointerVars, uiVars, imageVars, cacheVars>>

(***************************************************************************)
(* Image loads.  handleFile starts the decoding of the chosen file;        *)
(* img.onload runs later, with the comparison flag and divider position of *)
(* the render in which the file was chosen (its closure, here the record   *)
(* p) and with the container's current size.                               *)
(***************************************************************************)
\* What handleFile's img.onload closes over
FileClosure(img) == [img |-> img, isComparing |-> isComparing, sliderPos |-> sliderPos]

handleFile(img) ==
    /\ pendingFile' = FileClosure(img)
    /\ UNCHANGED <<pendingRefFile, progVars>>

\* The stroke list, undo stack and redo stack of the left pane after a load
LoadedInk == <<(<< >>), (<< >>), redoStack>>

imgOnload(p) ==
    /\ image' = p.img
    /\ transform' = FitTransform(LeftAvailW(rect, p.isComparing, p.sliderPos), rect, p.img)
    /\ paths' = LoadedInk[1]
    /\ history' = LoadedInk[2]
    /\ redoStack' = LoadedInk[3]
    /\ analysisImageRef' = Null
    /\ UNCHANGED <<referenceImage, refPaths, refHistory, refRedoStack,
                   refTransform, strokeVars, pointerVars, uiVars, analysisCanvas>>

handleReferenceFile(img) ==
    /\ pendingRefFile' = FileClosure(img)
    /\ UNCHANGED <<pendingFile, progVars>>

\* The stroke list, undo stack and redo stack of the right pane after a load
LoadedRefInk == <<(<< >>), (<< >>), refRedoStack>>

refImgOnload(p) ==
    /\ referenceImage' = p.img
    /\ refPaths' = LoadedRefInk[1]
    /\ refHistory' = LoadedRefInk[2]
    /\ refRedoStack' = LoadedRefInk[3]
    /\ refTransform' = FitTransform(RightAvailW(rect, p.sliderPos), rect, p.img)
    /\ isComparing' = TRUE
    /\ analysisImageRef' = Null
    /\ UNCHANGED <<image, paths, history, redoStack, transform,
                   strokeVars, pointerVars,
                   tool, color, size, sliderPos, isDraggingSlider, rect, analysisCanvas>>

(***************************************************************************)
(* Wheel, recenter, resize, slider and the mode and tool buttons           *)
(***************************************************************************)
\* The transform after one wheel step
WheelTransform(t, deltaY) == [t EXCEPT !.k = ClampK(RMul(t.k, WheelFactor(deltaY)))]

handleWheel(pos, deltaY) ==
    /\ IF isComparing /\ RGt(XPct(pos), sliderPos)
       THEN refTransform' = WheelTransform(refTransform, deltaY) /\ UNCHANGED transform
       ELSE transform' = WheelTransform(transform, deltaY) /\ UNCHANGED refTransform
    /\ UNCHANGED <<inkVars, strokeVars, pointerVars, uiVars, imageVars, cacheVars>>

recenterImage ==
    /\ transform' = IF image = Null THEN transform
                    ELSE FitTransform(LeftAvailW(rect, isComparing, sliderPos), rect, image)
    /\ UNCHANGED <<refTransform, inkVars, strokeVars, pointerVars, uiVars, imageVars, cacheVars>>

recenterReferenceImage ==
    /\ refTransform' = IF referenceImage = Null THEN refTransform
                       ELSE FitTransform(RightAvailW(rect, sliderPos), rect, referenceImage)
    /\ UNCHANGED <<transform, inkVars, strokeVars, pointerVars, uiVars, imageVars, cacheVars>>

\* The double click on the canvas
onDoubleClick(pos) ==
    IF isComparing /\ RGt(XPct(pos), sliderPos) THEN recenterReferenceImage ELSE recenterImage

\* The window's resize listener, with the container's new size
handleResize(r) ==
    /\ rect' = r
    /\ transform' = IF image = Null THEN transform
                    ELSE FitTransform(LeftAvailW(r, isComparing, sliderPos), r, image)
    /\ refTransform' = IF referenceImage = Null THEN refTransform
                       ELSE FitTransform(RightAvailW(r, sliderPos), r, referenceImage)
    /\ UNCHANGED <<tool, color, size, isComparing, sliderPos, isDraggingSlider,
                   inkVars, strokeVars, pointerVars, imageVars, cacheVars>>

handleSliderDown ==
    /\ isDraggingSlider' = TRUE
    /\ UNCHANGED <<tool, color, size, isComparing, sliderPos, rect,
                   inkVars, viewVars, strokeVars, pointerVars, imageVars, cacheVars>>

\* (a slider move that stores the fraction as it is)
handleSliderMoveUnclamped(clientX) ==
    /\ sliderPos' = IF isDraggingSlider THEN RDiv(R(clientX), R(rect.width)) ELSE sliderPos
    /\ UNCHANGED <<tool, color, size, isComparing, isDraggingSlider, rect,
                   inkVars, viewVars, strokeVars, pointerVars, imageVars, cacheVars>>

handleSliderMove(clientX) ==
    /\ sliderPos' = IF isDraggingSlider
                    THEN MathMax(R(0), MathMin(R(1), RDiv(R(clientX), R(rect.width))))
                    ELSE sliderPos
    /\ UNCHANGED <<tool, color, size, isComparing, isDraggingSlider, rect,
                   inkVars, viewVars, strokeVars, pointerVars, imageVars, cacheVars>>

handleSliderUp ==
    /\ isDraggingSlider' = FALSE
    /\ UNCHANGED <<tool, color, size, isComparing, sliderPos, rect,
                   inkVars, viewVars, strokeVars, pointerVars, imageVars, cacheVars>>

toggleCompare ==
    /\ isComparing' = ~isComparing
    /\ UNCHANGED <<tool, color, size, sliderPos, isDraggingSlider, rect,
                   inkVars, viewVars, strokeVars, pointerVars, imageVars, cacheVars>>

setTool(t) ==
    /\ tool' = t
    /\ UNCHANGED <<color, size, isComparing, sliderPos, isDraggingSlider, rect,
                   inkVars, viewVars, strokeVars, pointerVars, imageVars, cacheVars>>

\* A click on a colour of the palette also selects the pen
setColor(c) ==
    /\ color' = c
    /\ tool' = "pen"
    /\ UNCHANGED <<size, isComparing, sliderPos, isDraggingSlider, rect,
                   inkVars, viewVars, strokeVars, pointerVars, imageVars, cacheVars>>

(***************************************************************************)
(* The ink by reference.  A stroke is an object and a stroke list an       *)
(* array; paths.current, the snapshots on the stacks and the in-progress   *)
(* stroke are references, and push changes the array or object it is       *)
(* called on, for every holder of a reference to it.  heap holds the       *)
(* objects (strokes: id -> stroke, arrays: id -> list of stroke ids) and   *)
(* the references (paths, history, redo, current: per pane; 0 is null).    *)
(* The handlers are written once more on it, each statement that reads or  *)
(* writes ink as the code has it.                                          *)
(***************************************************************************)
Sides == {"left", "right"}

\* f with f[k] = v (k may be new)
Put(f, k, v) == [x \in DOMAIN f \cup {k} |-> IF x = k THEN v ELSE f[x]]

\* The id of a new object: the least that no object of f has
NewId(f) ==
    CHOOSE n \in 1..(Cardinality(DOMAIN f) + 1) :
        n \notin DOMAIN f /\ \A m \in 1..(n - 1) : m \in DOMAIN f

\* useRef([]) for paths and refPaths, useRef(null) for the in-progress strokes
InitialHeap ==
    [strokes |-> [s \in {} |-> Null],
     arrays  |-> [a \in {1, 2} |-> << >>],
     paths   |-> [left |-> 1, right |-> 2],
     history |-> [left |-> << >>, right |-> << >>],
     redo    |-> [left |-> << >>, right |-> << >>],
     current |-> [left |-> 0, right |-> 0]]

\* [...a]: the array the spread makes
\* (a push of the array itself)
SpreadAlias(h, a) == a

Spread(h, a) == NewId(h.arrays)

\* The arrays on the stacks (the snapshots) and the live lists
StackArrays(h) ==
    UNION {{h.history[side][i] : i \in 1..Len(h.history[side])}
               \cup {h.redo[side][i] : i \in 1..Len(h.redo[side])} : side \in Sides}

LiveArrays(h) == {h.paths[side] : side \in Sides}

\* The strokes of the live lists and the snapshots: the committed strokes
CommittedStrokes(h) ==
    UNION {{h.arrays[a][i] : i \in 1..Len(h.arrays[a])} :
               a \in StackArrays(h) \cup LiveArrays(h)}

\* const newPath = { points: [wp], ... }: the object the literal makes
\* (a pointer-down that takes the object of a committed stroke)
NewStrokeReused(h) ==
    IF CommittedStrokes(h) = {} THEN NewId(h.strokes)
    ELSE CHOOSE s \in CommittedStrokes(h) : TRUE

NewStroke(h) == NewId(h.strokes)

\* handlePointerDown
HeapDown(h, id, pos, button) ==
    IF button = 1 \/ InDividerBand(pos) THEN h
    ELSE LET pts  == MapSet(pointers, id, pos)
             side == SideOf(pos)
             wp   == IF side = "left" THEN ToWorkspaceWorld(pos) ELSE ToReferenceWorld(pos)
             s    == NewStroke(h)
         IN  IF Len(pts) = 2 THEN [h EXCEPT !.current = [left |-> 0, right |-> 0]]
             ELSE IF Len(pts) = 1 /\ tool # "hand"
             THEN [h EXCEPT !.strokes = Put(@, s, NewPath(wp)), !.current[side] = s]
             ELSE h

\* handlePointerMove: pp.push(wp) on the points of the stroke targetPath refers to
HeapMove(h, id, pos) ==
    IF isMiddleMousePanning \/ ~MapHas(pointers, id) THEN h
    ELSE IF Len(pointers) = 1 /\ tool # "hand" /\ h.current[activeSide] # 0
    THEN LET wp == IF activeSide = "left" THEN ToWorkspaceWorld(pos)
                   ELSE ToReferenceWorld(pos)
         IN  [h EXCEPT !.strokes[h.current[activeSide]] = Extended(@, wp)]
    ELSE h

\* history.current.push([...paths.current]); redoStack.current = [];
\* paths.current.push(currentPath.current); currentPath.current = null
HeapCommit(h, side) ==
    IF h.current[side] = 0 THEN h
    ELSE LET live == h.paths[side]
             copy == Spread(h, live)
             arrs == Put(h.arrays, copy, h.arrays[live])
         IN  [h EXCEPT !.arrays = Put(arrs, live, Append(arrs[live], h.current[side])),
                       !.history[side] = Append(@, copy),
                       !.redo[side] = << >>,
                       !.current[side] = 0]

\* handlePointerUp
HeapUp(h, id, button) ==
    IF isMiddleMousePanning /\ button = 1 THEN h
    ELSE HeapCommit(HeapCommit(h, "left"), "right")

\* handleUndo and handleRefUndo
HeapUndo(h, side) ==
    IF Len(h.history[side]) = 0 THEN h
    ELSE LET copy == Spread(h, h.paths[side])
         IN  [h EXCEPT !.arrays = Put(@, copy, @[h.paths[side]]),
                       !.redo[side] = Append(@, copy),
                       !.paths[side] = Top(h.history[side]),
                       !.history[side] = Pop(@)]

\* handleRedo and handleRefRedo
HeapRedo(h, side) ==
    IF Len(h.redo[side]) = 0 THEN h
    ELSE LET copy == Spread(h, h.paths[side])
         IN  [h EXCEPT !.arrays = Put(@, copy, @[h.paths[side]]),
                       !.history[side] = Append(@, copy),
                       !.paths[side] = Top(h.redo[side]),
                       !.redo[side] = Pop(@)]

\* handleClear and handleRefClear
HeapClear(h, side) ==
    LET copy  == Spread(h, h.paths[side])
        arrs  == Put(h.arrays, copy, h.arrays[h.paths[side]])
        empty == NewId(arrs)
    IN  [h EXCEPT !.arrays = Put(arrs, empty, << >>),
                  !.history[side] = Append(@, copy),
                  !.redo[side] = << >>,
                  !.paths[side] = empty]

\* img.onload: paths.current = []; history.current = []
HeapOnload(h, side) ==
    LET empty == NewId(h.arrays)
    IN  [h EXCEPT !.arrays = Put(@, empty, << >>),
                  !.paths[side] = empty,
                  !.history[side] = << >>]

\* The handler of an event that is no pointer event
HeapEdit(h, op) ==
    IF op = "undo" THEN HeapUndo(h, "left")
    ELSE IF op = "redo" THEN HeapRedo(h, "left")
    ELSE IF op = "refUndo" THEN HeapUndo(h, "right")
    ELSE IF op = "refRedo" THEN HeapRedo(h, "right")
    ELSE IF op = "clear" THEN HeapClear(h, "left")
    ELSE IF op = "refClear" THEN HeapClear(h, "right")
    ELSE IF op = "imgOnload" THEN HeapOnload(h, "left")
    ELSE IF op = "refImgOnload" THEN HeapOnload(h, "right")
    ELSE h

\* The garbage collector: the objects that no reference leads to are gone
Collect(h) ==
    LET as == StackArrays(h) \cup LiveArrays(h)
        ss == CommittedStrokes(h) \cup ({h.current[side] : side \in Sides} \ {0})
    IN  [h EXCEPT !.arrays = [a \in as |-> h.arrays[a]],
                  !.strokes = [s \in ss |-> h.strokes[s]]]

(***************************************************************************)
(* The environment: which events the browser delivers, and observers that  *)
(* record what happened (they are read by no handler).                     *)
(***************************************************************************)
\* Bounds of the model
MaxHistory == 2

MaxStrokes == 2

MaxViewSteps == 2

\* The pointers: 1 is the mouse, 2 and 3 are touches
PointerIds == {1, 2, 3}

NoButton == -1

\* Pointer 1 is the mouse
Mouse == 1

\* The buttons a pointer can press: the middle button is the mouse's
ButtonsOf(id) == IF id = Mouse THEN {0, 1} ELSE {0}

\* Where the strokes of Spec start (at x-fraction 0.9: in the only pane in
\* single-pane mode, in the right pane in comparison mode), and where they go
DownPositions == {Pt(900, 100)}

MovePositions == {Pt(500, 400)}

\* The ink of both panes
Ink == <<paths, history, redoStack, refPaths, refHistory, refRedoStack>>

PaneInk(side) ==
    IF side = "left" THEN <<paths, history, redoStack>>
    ELSE <<refPaths, refHistory, refRedoStack>>

PanePaths(side) == IF side = "left" THEN paths ELSE refPaths

InProgress(side) == IF side = "left" THEN currentPath ELSE currentRefPath

AnyPressed == \E id \in PointerIds : pressed[id] # NoButton

\* The pane on which the event commits a stroke ("none" if on neither)
CommitSide(op, button) ==
    IF op \notin {"pointerup", "pointercancel", "pointerleave"} THEN "none"
    ELSE IF isMiddleMousePanning /\ button = 1 THEN "none"
    ELSE IF currentPath # Null THEN "left"
    ELSE IF currentRefPath # Null THEN "right"
    ELSE "none"

\* The pane whose ink an event edits ("none" for the events that edit none)
EditSide(op, button) ==
    IF op \in {"undo", "redo", "clear", "imgOnload"} THEN "left"
    ELSE IF op \in {"refUndo", "refRedo", "refClear", "refImgOnload"} THEN "right"
    ELSE CommitSide(op, button)

EditKind(op) ==
    IF op \in {"undo", "refUndo"} THEN "undo"
    ELSE IF op \in {"redo", "refRedo"} THEN "redo"
    ELSE IF op \in {"clear", "refClear"} THEN "clear"
    ELSE IF op \in {"imgOnload", "refImgOnload"} THEN "load"
    ELSE "commit"

\* law is Null unless the last event was an edit: a commit, an undo, a redo, a
\* clear or a load.  It records the edit's kind and pane, the pane's in-progress
\* stroke and ink <<stroke list, undo stack, redo stack>> before the edit, and
\* follows the sequences <commit or clear, undo, redo> on one pane with no other
\* event in between: stage is the number of steps of such a sequence taken (0
\* for an edit outside one), pre and post the pane's stroke list before and
\* after the sequence's first step, afterCommit whether the edit is a redo and
\* the event before it was a commit on the same pane.
LawRecord(stage, side, kind) ==
    [stage |-> stage, side |-> side, kind |-> kind, first |-> kind,
     pre |-> PanePaths(side), post |-> IF side = "left" THEN paths' ELSE refPaths',
     stroke |-> InProgress(side), before |-> PaneInk(side),
     afterCommit |-> kind = "redo" /\ law # Null /\ law.kind = "commit" /\ law.side = side]

LawNext(op, button) ==
    LET side == EditSide(op, button)
        kind == EditKind(op)
    IN  IF side = "none" THEN Null
        ELSE IF kind \in {"commit", "clear"} THEN LawRecord(1, side, kind)
        ELSE IF law # Null /\ law.side = side /\ kind = "undo" /\ law.stage = 1
        THEN [law EXCEPT !.stage = 2, !.kind = kind, !.before = PaneInk(side)]
        ELSE IF law # Null /\ law.side = side /\ kind = "redo" /\ law.stage = 2
        THEN [law EXCEPT !.stage = 3, !.kind = kind, !.before = PaneInk(side)]
        ELSE LawRecord(0, side, kind)

\* gesture is set by the pointer-down that starts a stroke, records a further
\* pointer-down while the stroke is in progress, and is dropped by any event
\* that is not a pointer event and by the first event after all pointers are up.
GestureNext(op) ==
    IF op \notin {"pointerdown", "pointermove", "pointerup", "pointercancel", "pointerleave"}
    THEN Null
    ELSE IF op = "pointerdown" /\ currentPath = Null /\ currentRefPath = Null
            /\ (currentPath' # Null \/ currentRefPath' # Null)
    THEN [snap |-> Ink, second |-> FALSE]
    ELSE IF ~AnyPressed THEN Null
    ELSE IF gesture # Null /\ op = "pointerdown"
            /\ (currentPath # Null \/ currentRefPath # Null)
    THEN [gesture EXCEPT !.second = TRUE]
    ELSE gesture

\* event is the event just handled, with the pointer, the client position and
\* the button or wheel delta it carries, if it is one the observer follows
EventNext(obs, op, id, pos, button) ==
    IF \/ obs = "gesture" /\ op \in {"pointerdown", "pointermove"}
       \/ obs = "view" /\ op = "wheel"
       \/ obs = "pointer"
       \/ obs = "magnet"
    THEN [op |-> op, id |-> id, pos |-> pos, button |-> button]
    ELSE Null

\* pinch is set when the registry holds a second pointer and dropped when the
\* registry is empty
PinchNext ==
    IF pointers' = << >> THEN FALSE
    ELSE IF Len(pointers') >= 2 THEN TRUE
    ELSE pinch

\* snap is the call of snapToEdge that the handler just run made, with the
\* image whose pixels the analysis canvas held when they were read (Null if
\* the call read none) and whether the call drew the canvas anew, or Null if
\* the handler made no call
SnapSeen(obs, call) ==
    IF obs # "magnet" THEN snap
    ELSE IF call = Null THEN Null
    ELSE IF ReadsPixels(call.x, call.y, call.image)
    THEN [in |-> call, read |-> AnalysisPixels(call.image), decoded |-> Stale(call.image)]
    ELSE [in |-> call, read |-> Null, decoded |-> FALSE]

\* obs says which observers follow the events: "law", "gesture", "view", ...
Observe(obs, op, button) ==
    /\ law' = IF obs = "law" THEN LawNext(op, button) ELSE Null
    /\ gesture' = IF obs = "gesture" THEN GestureNext(op) ELSE Null
    /\ viewSteps' = IF op \in {"pointermove", "wheel"} /\ viewVars' # viewVars
                    THEN viewSteps + 1 ELSE viewSteps
    /\ pinch' = IF obs = "gesture" THEN PinchNext ELSE FALSE

NumInProgress ==
    (IF currentPath = Null THEN 0 ELSE 1) + (IF currentRefPath = Null THEN 0 ELSE 1)

\* What the bounds of the model allow: the snapshots on the four stacks, the
\* strokes of the two lists (an in-progress stroke counts for both, so that its
\* commit is never held back), the zoom and pan steps
Bounded ==
    /\ Len(history) + Len(redoStack) + Len(refHistory) + Len(refRedoStack) + NumInProgress
           <= MaxHistory
    /\ Len(paths) + Len(refPaths) + NumInProgress <= MaxStrokes
    /\ viewSteps <= MaxViewSteps

(***************************************************************************)
(* The redraw scheduler.  draw is a closure of the render that created it: *)
(* it reads image, referenceImage, isComparing and sliderPos as that       *)
(* render saw them, and the refs (transforms, strokes) as they are when it *)
(* runs.  A render that finds these four or the version counter changed    *)
(* makes a new draw and a new requestRedraw, so the resize effect is       *)
(* cleaned up (the pending request cancelled) and run again (a request     *)
(* issued with the new draw).                                              *)
(***************************************************************************)
\* The state that draw closes over, as it is now
DrawClosure ==
    [image |-> image, referenceImage |-> referenceImage,
     isComparing |-> isComparing, sliderPos |-> sliderPos]

\* ... and as it is after the step
NextDrawClosure ==
    [image |-> image', referenceImage |-> referenceImage',
     isComparing |-> isComparing', sliderPos |-> sliderPos']

\* requestAnimationFrame's handle: a positive number no pending request has
NewHandle(queue) ==
    LET n == CHOOSE n \in 1..(Len(queue) + 1) :
                 \A i \in 1..Len(queue) : queue[i].id.handle # n
    IN  [handle |-> n]

\* The scheduler's state <<animFrameRef, rafQueue>> after requestRedraw
\* (a requestRedraw without the pending test)
RequestRedrawUnguarded(fs, draw) ==
    LET id == NewHandle(fs[2])
    IN  <<id, Append(fs[2], [id |-> id, draw |-> draw])>>

RequestRedraw(fs, draw) ==
    IF fs[1] # Null THEN fs
    ELSE LET id == NewHandle(fs[2])
         IN  <<id, Append(fs[2], [id |-> id, draw |-> draw])>>

\* (a cleanup that forgets the pending request without cancelling it)
CleanupNoCancel(fs) == <<Null, fs[2]>>

\* ... after the cleanup of the resize effect
Cleanup(fs) ==
    IF fs[1] # Null
    THEN <<Null, SelectSeq(fs[2], LAMBDA e : e.id # fs[1])>>
    ELSE fs

\* ... after a render that found draw's dependencies changed: the cleanup,
\* then the effects with the new requestRedraw
Rerender(fs, draw) == RequestRedraw(RequestRedraw(Cleanup(fs), draw), draw)

\* Whether the handler of the event called setVersion
SetsVersion(op, button) ==
    \/ op \in {"pointerup", "pointercancel", "pointerleave"}
           /\ ~(isMiddleMousePanning /\ button = 1)
    \/ op \in {"undo", "redo", "refUndo", "refRedo", "clear", "refClear"}
           /\ inkVars' # inkVars

\* Whether the handler of the event called requestRedraw itself
\* (handlers that leave the request to the effects)
RequestsNever(op, id, pos, button) == FALSE

Requests(op, id, pos, button) ==
    \/ op = "pointerdown" /\ button # 1 /\ ~InDividerBand(pos)
    \/ op = "pointermove" /\ (isMiddleMousePanning \/ MapHas(pointers, id))
    \/ op \in {"wheel", "resize"}
    \/ op = "recenter" /\ image # Null
    \/ op = "recenterReference" /\ referenceImage # Null

\* Whether the next render finds draw's dependencies changed
RenderDue(op, button) ==
    \/ NextDrawClosure # rendered
    \/ SetsVersion(op, button)
    \/ op \in {"imgOnload", "refImgOnload"}

MaxCalls == 2

\* The scheduler after the event: the handler's own request, then the render
\* the event leads to.  The render of a state change made by img.onload, which
\* is no React event, is deferred (deferred = TRUE); it is the step Render.
Frame(deferred, op, id, pos, button) ==
    LET fs0 == <<animFrameRef, rafQueue>>
        req == Requests(op, id, pos, button)
        fs1 == IF req THEN RequestRedraw(fs0, rendered) ELSE fs0
        now == RenderDue(op, button) /\ ~deferred
        fs2 == IF now THEN Rerender(fs1, NextDrawClosure) ELSE fs1
    IN  /\ mounted
        /\ animFrameRef' = fs2[1]
        /\ rafQueue' = fs2[2]
        /\ rendered' = IF now THEN NextDrawClosure ELSE rendered
        /\ UNCHANGED mounted
        /\ shown' = << >>
        /\ calls' = IF (req \/ now) /\ calls < MaxCalls THEN calls + 1 ELSE calls

\* The canvas's onPointerDown: a pointer that holds no button goes down
EvPointerDown(obs, id, pos, button) ==
    /\ pressed[id] = NoButton
    /\ handlePointerDown(id, pos, button)
    /\ pressed' = [pressed EXCEPT ![id] = button]
    /\ UNCHANGED loaderVars
    /\ Observe(obs, "pointerdown", button)
    /\ snap' = SnapSeen(obs, SnapCallOfDown(id, pos, button))
    /\ event' = EventNext(obs, "pointerdown", id, pos, button)
    /\ heap' = IF obs = "heap" THEN Collect(HeapDown(heap, id, pos, button)) ELSE heap
    /\ UNCHANGED workerVars
    /\ Frame(FALSE, "pointerdown", id, pos, button)
    /\ Bounded'

\* The canvas's onPointerMove (also of a pointer that holds no button)
EvPointerMove(obs, id, pos) ==
    /\ handlePointerMove(id, pos)
    /\ UNCHANGED <<pressed, loaderVars>>
    /\ Observe(obs, "pointermove", NoButton)
    /\ snap' = SnapSeen(obs, SnapCallOfMove(id, pos))
    /\ event' = EventNext(obs, "pointermove", id, pos, NoButton)
    /\ heap' = IF obs = "heap" THEN Collect(HeapMove(heap, id, pos)) ELSE heap
    /\ UNCHANGED workerVars
    /\ Frame(FALSE, "pointermove", id, pos, NoButton)
    /\ Bounded'

\* The canvas's onPointerUp: the pointer releases the button it holds
EvPointerUp(obs, id) ==
    /\ pressed[id] # NoButton
    /\ handlePointerUp(id, pressed[id])
    /\ pressed' = [pressed EXCEPT ![id] = NoButton]
    /\ UNCHANGED loaderVars
    /\ Observe(obs, "pointerup", pressed[id])
    /\ snap' = SnapSeen(obs, Null)
    /\ event' = EventNext(obs, "pointerup", id, Null, pressed[id])
    /\ heap' = IF obs = "heap" THEN Collect(HeapUp(heap, id, pressed[id])) ELSE heap
    /\ UNCHANGED workerVars
    /\ Frame(FALSE, "pointerup", id, Null, pressed[id])
    /\ Bounded'

\* The button a pointercancel or pointerleave event carries: -1 (no button
\* changed) or 0 (the default), whatever button the pointer holds
CancelButtons == {-1, 0}

\* The canvas's onPointerCancel (op = "pointercancel", of a pointer that holds a
\* button) and onPointerLeave (op = "pointerleave", of a pointer that holds
\* none: the canvas captures the pointers that are down)
EvPointerCancel(obs, op, id, button) ==
    /\ (op = "pointercancel") = (pressed[id] # NoButton)
    /\ handlePointerUp(id, button)
    /\ pressed' = [pressed EXCEPT ![id] = NoButton]
    /\ UNCHANGED loaderVars
    /\ Observe(obs, op, button)
    /\ snap' = SnapSeen(obs, Null)
    /\ event' = EventNext(obs, op, id, Null, button)
    /\ heap' = IF obs = "heap" THEN Collect(HeapUp(heap, id, button)) ELSE heap
    /\ UNCHANGED workerVars
    /\ Frame(FALSE, op, id, Null, button)
    /\ Bounded'

\* An event that is no pointer event of the canvas and starts or ends no decoding
Ev(obs, op, handler) ==
    /\ handler
    /\ UNCHANGED <<pressed, loaderVars>>
    /\ Observe(obs, op, NoButton)
    /\ snap' = SnapSeen(obs, Null)
    /\ event' = Null
    /\ heap' = IF obs = "heap" THEN Collect(HeapEdit(heap, op)) ELSE heap
    /\ UNCHANGED workerVars
    /\ Frame(FALSE, op, 0, Null, NoButton)
    /\ Bounded'

\* The choice of a file, and the end of a decoding
EvLoader(obs, op, handler) ==
    /\ handler
    /\ UNCHANGED pressed
    /\ Observe(obs, op, NoButton)
    /\ snap' = SnapSeen(obs, Null)
    /\ event' = Null
    /\ heap' = IF obs = "heap" THEN Collect(HeapEdit(heap, op)) ELSE heap
    /\ UNCHANGED workerVars
    /\ Frame(obs = "frame", op, 0, Null, NoButton)
    /\ Bounded'

EvWheel(obs, pos, deltaY) ==
    /\ handleWheel(pos, deltaY)
    /\ UNCHANGED <<pressed, loaderVars>>
    /\ Observe(obs, "wheel", NoButton)
    /\ snap' = SnapSeen(obs, Null)
    /\ event' = EventNext(obs, "wheel", 0, pos, deltaY)
    /\ UNCHANGED <<heap, workerVars>>
    /\ Frame(FALSE, "wheel", 0, pos, NoButton)
    /\ Bounded'

(***************************************************************************)
(* The service worker.  A response body is the version of the site it was  *)
(* served from, 0 stands for no response (undefined).  A fetch event is a  *)
(* record [request, at, fetched, net, failed, matched, response, stored]:  *)
(* at is the pending step of its promise chain ("fetch", "open", "match")  *)
(* or "done"; fetched says that fetch(event.request) was called; net is    *)
(* the body the network answered with, 0 if it has not; failed says that   *)
(* the fetch was rejected; matched is the result of caches.match, -1 if    *)
(* it was not called; response is what respondWith settled with; stored    *)
(* says that cache.put was called.                                         *)
(***************************************************************************)
CACHE_NAME == "sfh-v4"

ASSETS_TO_CACHE == {"./", "./index.html", "./manifest.json", "./icon.svg"}

\* The URLs of the site: the assets and the bundle the page loads
Urls == ASSETS_TO_CACHE \cup {"./assets/index.js"}

\* caches.open(name): the cache is created if it does not exist
CachesOpen(storage, name) ==
    IF name \in DOMAIN storage
    THEN storage
    ELSE [n \in DOMAIN storage \cup {name} |->
              IF n = name THEN [url \in Urls |-> 0] ELSE storage[n]]

\* caches.match(request): the entry of the first cache, in creation order,
\* that has one; 0 if none has
CachesMatch(storage, url) ==
    IF "sfh-v3" \in DOMAIN storage /\ storage["sfh-v3"][url] > 0
    THEN storage["sfh-v3"][url]
    ELSE IF CACHE_NAME \in DOMAIN storage THEN storage[CACHE_NAME][url] ELSE 0

\* The install listener: cache.addAll(ASSETS_TO_CACHE) fetches every asset and
\* stores them all, or fails and the worker is discarded
SwInstall ==
    /\ worker = "installing"
    /\ \/ /\ cacheStorage' = [CachesOpen(cacheStorage, CACHE_NAME) EXCEPT ![CACHE_NAME] =
                                  [url \in Urls |-> IF url \in ASSETS_TO_CACHE
                                                    THEN network ELSE @[url]]]
          /\ worker' = "installed"
       \/ /\ worker' = "redundant"
          /\ cacheStorage' = CachesOpen(cacheStorage, CACHE_NAME)
    /\ UNCHANGED <<fetchEvents, puts, network>>

\* The activate listener, run when the worker stops waiting (at once on the
\* message skipWaiting): every cache but CACHE_NAME is deleted
SwActivate ==
    /\ worker = "installed"
    /\ cacheStorage' = [n \in DOMAIN cacheStorage \cap {CACHE_NAME} |-> cacheStorage[n]]
    /\ worker' = "activated"
    /\ UNCHANGED <<fetchEvents, puts, network>>

NewFetchEvent(request) ==
    [request |-> request, at |-> "", fetched |-> FALSE, net |-> 0, failed |-> FALSE,
     matched |-> -1, response |-> [from |-> "", body |-> 0], stored |-> FALSE]

\* (a listener that looks into the cache first whatever the request's mode)
FetchListenerCacheFirst(request) == [NewFetchEvent(request) EXCEPT !.at = "match"]

\* The fetch listener up to respondWith: a navigation request is fetched, for
\* any other caches.match is called
FetchListener(request) ==
    IF request.mode = "navigate"
    THEN [NewFetchEvent(request) EXCEPT !.at = "fetch", !.fetched = TRUE]
    ELSE [NewFetchEvent(request) EXCEPT !.at = "match"]

\* fetch(event.request) is fulfilled with the network's response
FetchFulfilled(e, body) == [e EXCEPT !.at = "open", !.net = body]

\* fetch(event.request) is rejected: the navigation chain goes on in its
\* catch, the other chain has none and respondWith is rejected
FetchRejected(e) ==
    IF e.request.mode = "navigate"
    THEN [e EXCEPT !.at = "match", !.failed = TRUE]
    ELSE [e EXCEPT !.at = "done", !.failed = TRUE, !.response = [from |-> "error", body |-> 0]]

\* caches.open(CACHE_NAME).then(...): cache.put is called with a clone and the
\* network response is returned
CacheOpened(e) ==
    [e EXCEPT !.at = "done", !.stored = TRUE, !.response = [from |-> "network", body |-> e.net]]

\* caches.match(event.request) is fulfilled with cached: in the catch of a
\* navigation it is the response; for another request it is the response if
\* it is truthy, else the request is fetched
CacheMatched(e, cached) ==
    IF e.request.mode = "navigate" \/ cached # 0
    THEN [e EXCEPT !.at = "done", !.matched = cached,
                   !.response = [from |-> "cache", body |-> cached]]
    ELSE [e EXCEPT !.at = "fetch", !.matched = cached, !.fetched = TRUE]

(***************************************************************************)
(* The state after construction                                            *)
(***************************************************************************)
\* The caches of the origin when this version of the worker is installed:
\* the cache of the version before it
PreviousCaches ==
    [name \in {"sfh-v3"} |-> [url \in Urls |-> IF url \in ASSETS_TO_CACHE THEN 1 ELSE 0]]

Init ==
    /\ image = Null
    /\ referenceImage = Null
    /\ analysisImageRef = Null
    /\ analysisCanvas = Null
    /\ tool = "pen"
    /\ color = "#FF4444"
    /\ size = 12
    /\ isComparing = FALSE
    /\ sliderPos = Q(1, 2)
    /\ isDraggingSlider = FALSE
    /\ paths = << >>
    /\ history = << >>
    /\ redoStack = << >>
    /\ transform = InitialTransform
    /\ currentPath = Null
    /\ refPaths = << >>
    /\ refHistory = << >>
    /\ refRedoStack = << >>
    /\ refTransform = InitialTransform
    /\ currentRefPath = Null
    /\ pointers = << >>
    /\ activeSide = "left"
    /\ gestureState = [lastDist |-> R(0), lastCenter |-> Null, lastPos |-> Null]
    /\ isMiddleMousePanning = FALSE
    /\ middleMouseLastPos = Null
    /\ rect = [width |-> 1000, height |-> 1000]
    /\ pendingFile = Null
    /\ pendingRefFile = Null
    /\ animFrameRef = NewHandle(<< >>)
    /\ rafQueue = <<[id |-> NewHandle(<< >>), draw |-> DrawClosure]>>
    /\ rendered = DrawClosure
    /\ mounted = TRUE
    /\ shown = << >>
    /\ calls = 1
    /\ pressed = [id \in PointerIds |-> NoButton]
    /\ law = Null
    /\ gesture = Null
    /\ event = Null
    /\ viewSteps = 0
    /\ snap = Null
    /\ pinch = FALSE
    /\ heap = InitialHeap
    /\ worker = "installing"
    /\ cacheStorage = PreviousCaches
    /\ fetchEvents = << >>
    /\ puts = << >>
    /\ network = 2

(***************************************************************************)
(* Spec: drawing and editing.  One touch pointer draws with the pen, in    *)
(* the only pane before a reference image is loaded and in the right pane  *)
(* after; strokes are committed, undone, redone and cleared in both panes; *)
(* images are loaded into both.  Gestures of several pointers belong to    *)
(* SpecGesture, zoom and pan to SpecView.                                  *)
(***************************************************************************)
Touches == {2}

\* An image that fits a 1000 x 1000 container, and a half of it, with k = 1
InkImages == {[id |-> 1, width |-> 90, height |-> 900]}

ViewFixed == viewVars' = viewVars

Down == \E id \in Touches, pos \in DownPositions : EvPointerDown("law", id, pos, 0)

Move == \E id \in Touches, pos \in MovePositions : EvPointerMove("law", id, pos) /\ ViewFixed

Up == \E id \in Touches : EvPointerUp("law", id)

Undo == Ev("law", "undo", handleUndo)

Redo == Ev("law", "redo", handleRedo)

RefUndo == Ev("law", "refUndo", handleRefUndo)

RefRedo == Ev("law", "refRedo", handleRefRedo)

Clear == Ev("law", "clear", handleClear)

RefClear == Ev("law", "refClear", handleRefClear)

\* A file is chosen and decoded before the next event
LoadImage == \E img \in InkImages : Ev("law", "imgOnload", imgOnload(FileClosure(img)))

LoadReference == \E img \in InkImages : Ev("law", "refImgOnload", refImgOnload(FileClosure(img)))

Next ==
    \/ Down
    \/ Move
    \/ Up
    \/ Undo
    \/ Redo
    \/ RefUndo
    \/ RefRedo
    \/ Clear
    \/ RefClear
    \/ LoadImage
    \/ LoadReference

Spec == Init /\ [][Next]_vars

(***************************************************************************)
(* SpecHeap: the events of Spec, with the ink followed by reference.       *)
(***************************************************************************)
HDown == \E id \in Touches, pos \in DownPositions : EvPointerDown("heap", id, pos, 0)

HMove == \E id \in Touches, pos \in MovePositions : EvPointerMove("heap", id, pos) /\ ViewFixed

HUp == \E id \in Touches : EvPointerUp("heap", id)

HUndo == Ev("heap", "undo", handleUndo) /\ inkVars' # inkVars

HRedo == Ev("heap", "redo", handleRedo) /\ inkVars' # inkVars

HClear == Ev("heap", "clear", handleClear) /\ inkVars' # inkVars

HRefUndo == Ev("heap", "refUndo", handleRefUndo) /\ inkVars' # inkVars

HRefRedo == Ev("heap", "refRedo", handleRefRedo) /\ inkVars' # inkVars

HRefClear == Ev("heap", "refClear", handleRefClear) /\ inkVars' # inkVars

\* Comparison mode is switched on: the strokes that follow are the right pane's
HToggleCompare == ~isComparing /\ ~AnyPressed /\ Ev("heap", "toggleCompare", toggleCompare)

NextHeap ==
    \/ HDown
    \/ HMove
    \/ HUp
    \/ HUndo
    \/ HRedo
    \/ HClear
    \/ HRefUndo
    \/ HRefRedo
    \/ HRefClear
    \/ HToggleCompare

SpecHeap == Init /\ [][NextHeap]_vars

(***************************************************************************)
(* Properties of SpecHeap                                                  *)
(***************************************************************************)
\* The strokes of an array, and the lists of a stack
Deref(h, a) == [i \in 1..Len(h.arrays[a]) |-> h.strokes[h.arrays[a][i]]]

DerefStack(h, st) == [i \in 1..Len(st) |-> Deref(h, st[i])]

DerefStroke(h, s) == IF s = 0 THEN Null ELSE h.strokes[s]

\* The ink by reference is the ink by value
HeapAgrees ==
    /\ paths = Deref(heap, heap.paths.left)
    /\ history = DerefStack(heap, heap.history.left)
    /\ redoStack = DerefStack(heap, heap.redo.left)
    /\ currentPath = DerefStroke(heap, heap.current.left)
    /\ refPaths = Deref(heap, heap.paths.right)
    /\ refHistory = DerefStack(heap, heap.history.right)
    /\ refRedoStack = DerefStack(heap, heap.redo.right)
    /\ currentRefPath = DerefStroke(heap, heap.current.right)

\* C24: a stroke of a live list or of a snapshot keeps its points, colour,
\* width and eraser flag in every step after which it still is one; and a step
\* that is no pointer-down, pointer-up or image load (a move, an undo, a redo, a
\* clear) puts no stroke into a list or snapshot that was in none before.
C24_CommittedStrokeImmutable ==
    [][/\ \A s \in CommittedStrokes(heap) \cap CommittedStrokes(heap') :
              heap'.strokes[s] = heap.strokes[s]
       /\ (pressed' = pressed /\ imageVars' = imageVars) =>
              CommittedStrokes(heap') \subseteq CommittedStrokes(heap)]_vars

\* A second stroke is drawn, with two points so far, while a committed stroke
\* of two points is in the pane's list
C24_Witness ==
    /\ HeapAgrees
    /\ \E side \in Sides :
           /\ heap.current[side] # 0
           /\ Len(heap.strokes[heap.current[side]].points) = 2
           /\ Len(heap.arrays[heap.paths[side]]) = 1
           /\ Len(heap.strokes[heap.arrays[heap.paths[side]][1]].points) = 2
           /\ heap.history[side] # << >>

\* C30: no array on an undo or redo stack is a pane's live array, and an array
\* that stays on a stack keeps its content in every step.
C30_SnapshotsNotAliased ==
    /\ [](StackArrays(heap) \cap LiveArrays(heap) = {})
    /\ [][\A a \in StackArrays(heap) \cap StackArrays(heap') :
              heap'.arrays[a] = heap.arrays[a]]_vars

\* Two strokes were committed to a pane: the undo stack holds the empty list
\* and the list of the first stroke, the live list both strokes
C30_Witness ==
    /\ HeapAgrees
    /\ \E side \in Sides :
           /\ Len(heap.history[side]) = 2
           /\ heap.arrays[heap.history[side][1]] = << >>
           /\ Len(heap.arrays[heap.history[side][2]]) = 1
           /\ Len(heap.arrays[heap.paths[side]]) = 2

(***************************************************************************)
(* Properties of Spec                                                      *)
(***************************************************************************)
NoInk == <<(<< >>), (<< >>), (<< >>)>>

\* A pane's ink after the step
NextPaneInk(side) ==
    IF side = "left" THEN <<paths', history', redoStack'>>
    ELSE <<refPaths', refHistory', refRedoStack'>>

\* C1: on either pane, a commit appends the in-progress stroke to the stroke
\* list; an undo right after the commit gives back the list as it was before
\* the commit, and a redo right after that undo gives the list as it was after
\* the commit.
C1_CommitUndoRedo ==
    (law # Null /\ law.first = "commit" /\ law.stage >= 1) =>
        /\ law.post = Append(law.pre, law.stroke)
        /\ law.stage = 1 => PanePaths(law.side) = law.post
        /\ law.stage = 2 => PanePaths(law.side) = law.pre
        /\ law.stage = 3 => PanePaths(law.side) = law.post

\* A two-point stroke was committed to an empty pane, undone and redone.
C1_Witness ==
    /\ law # Null
    /\ law.first = "commit"
    /\ law.stage = 3
    /\ law.pre = << >>
    /\ Len(law.stroke.points) = 2
    /\ PanePaths(law.side) = <<law.stroke>>

\* C2: the redo stack of a pane is empty right after every commit on that
\* pane, and a redo right after a commit changes nothing of the pane's ink.
C2_CommitClearsRedo ==
    [][/\ (law' # Null /\ law'.kind = "commit") => NextPaneInk(law'.side)[3] = << >>
       /\ (law # Null /\ law.kind = "commit" /\ law' # Null /\ law'.kind = "redo"
              /\ law'.side = law.side)
             => NextPaneInk(law.side) = PaneInk(law.side)]_vars

\* A redo was issued right after a commit, on the pane of the commit.
C2_Witness ==
    /\ law # Null
    /\ law.kind = "redo"
    /\ law.afterCommit
    /\ law.before[1] # << >>
    /\ law.before[2] # << >>
    /\ PaneInk(law.side) = law.before

\* A commit that found a snapshot on the redo stack has happened.
C2_WitnessCommit == law # Null /\ law.kind = "commit" /\ law.before[3] # << >>

\* C9: an undo with an empty undo stack and a redo with an empty redo stack
\* leave the pane's stroke list, undo stack and redo stack as they are, on
\* either pane.
C9_EmptyStacksNoOp ==
    [][(law' # Null /\ \/ (law'.kind = "undo" /\ PaneInk(law'.side)[2] = << >>)
                       \/ (law'.kind = "redo" /\ PaneInk(law'.side)[3] = << >>))
          => NextPaneInk(law'.side) = PaneInk(law'.side)]_vars

\* An undo was issued on the right pane while its undo stack was empty and
\* its redo stack was not.
C9_Witness ==
    /\ law # Null
    /\ law.kind = "undo"
    /\ law.side = "right"
    /\ law.before[2] = << >>
    /\ law.before[3] # << >>
    /\ PaneInk("right") = law.before

\* C10: a clear pushes the stroke list onto the undo stack and empties the
\* redo stack and the stroke list; an undo right after it restores the list as
\* it was before the clear, and a redo right after that undo gives the empty
\* list again.
C10_ClearUndoRedo ==
    (law # Null /\ law.first = "clear" /\ law.stage >= 1) =>
        /\ law.post = << >>
        /\ law.stage = 1 =>
               PaneInk(law.side) = <<(<< >>), Append(law.before[2], law.before[1]), (<< >>)>>
        /\ law.stage = 2 => PanePaths(law.side) = law.pre
        /\ law.stage = 3 => PanePaths(law.side) = << >>

\* A pane that held a stroke was cleared, the clear undone and redone.
C10_Witness ==
    /\ law # Null
    /\ law.first = "clear"
    /\ law.stage = 3
    /\ law.pre # << >>

\* C3: right after an image is loaded into a pane, the pane's stroke list,
\* undo stack and redo stack are empty.
C3_LoadEmptiesInk == (law # Null /\ law.kind = "load") => PaneInk(law.side) = NoInk

\* The other pane
Other(side) == IF side = "left" THEN "right" ELSE "left"

\* A pane's transform, before and after the step
PaneTransform(side) == IF side = "left" THEN transform ELSE refTransform

NextPaneTransform(side) == IF side = "left" THEN transform' ELSE refTransform'

\* C11: a commit, an undo, a redo or a clear on one pane leaves the other
\* pane's stroke list, undo stack, redo stack and transform as they are.
C11_PaneScoped ==
    [][(law' # Null /\ law'.kind \in {"commit", "undo", "redo", "clear"}) =>
          /\ NextPaneInk(Other(law'.side)) = PaneInk(Other(law'.side))
          /\ NextPaneTransform(Other(law'.side)) = PaneTransform(Other(law'.side))]_vars

\* A stroke of the right pane was undone while the left pane held a stroke
\* and a snapshot on its undo stack.
C11_Witness ==
    /\ law # Null
    /\ law.kind = "undo"
    /\ law.side = "right"
    /\ law.before[1] # << >>
    /\ paths # << >>
    /\ history # << >>

(***************************************************************************)
(* SpecGesture: gestures of two touch pointers with the pen, in single-pane *)
(* and in comparison mode.  The pointers go down at x-fractions 0.1, 0.54   *)
(* and 0.9 of a container 1000 wide: with the divider at 0.5 the second is  *)
(* 40 px from the divider, outside the slider overlay (32 px to each side)  *)
(* and inside the tolerance band (50 px to each side).                     *)
(***************************************************************************)
GestureTouches == {2, 3}

GesturePositions == {Pt(100, 100), Pt(540, 100), Pt(900, 100)}

\* Where the pointers move to
GestureMovePositions == {Pt(100, 100)}

\* The strokes of SpecGesture, committed and in progress
MaxGestureStrokes == 1

GestureBounded == Len(paths) + Len(refPaths) + NumInProgress <= MaxGestureStrokes

GDown ==
    /\ \E id \in GestureTouches, pos \in GesturePositions :
           EvPointerDown("gesture", id, pos, 0)
    /\ GestureBounded'

GMove ==
    /\ \E id \in GestureTouches, pos \in GestureMovePositions :
           EvPointerMove("gesture", id, pos)
    /\ ViewFixed

GUp == \E id \in GestureTouches : EvPointerUp("gesture", id)

GToggleCompare == Ev("gesture", "toggleCompare", toggleCompare)

NextGesture ==
    \/ GDown
    \/ GMove
    \/ GUp
    \/ GToggleCompare

SpecGesture == Init /\ [][NextGesture]_vars

(***************************************************************************)
(* Properties of SpecGesture                                               *)
(***************************************************************************)
\* C7: when a second pointer went down while a stroke was in progress, then
\* once all pointers are up the stroke lists, undo stacks and redo stacks of
\* both panes are what they were when the stroke was started.
C7_SecondPointerDiscards ==
    (gesture # Null /\ gesture.second /\ ~AnyPressed) => Ink = gesture.snap

\* C8: a pointer-down with a button other than the middle one, at x-fraction
\* x: within 0.05 of the divider in comparison mode it registers no pointer and
\* starts no stroke; otherwise it registers the pointer and makes the right
\* pane active if comparison mode is on and x is greater than the divider
\* position, the left pane if not, and if it is the only pointer it starts a
\* stroke in the active pane and none in the other.
C8_PaneRouting ==
    [][(event' # Null /\ event'.op = "pointerdown" /\ event'.button # 1) =>
          LET x    == Q(event'.pos.x, rect.width)
              side == IF isComparing /\ RGt(x, sliderPos) THEN "right" ELSE "left"
          IN  IF isComparing /\ RLt(RAbs(RSub(x, sliderPos)), Q(5, 100))
              THEN /\ pointers' = pointers
                   /\ currentPath' = currentPath
                   /\ currentRefPath' = currentRefPath
              ELSE /\ MapHas(pointers', event'.id)
                   /\ activeSide' = side
                   /\ (Len(pointers') = 1 /\ side = "left") =>
                          currentPath' # Null /\ currentRefPath' = currentRefPath
                   /\ (Len(pointers') = 1 /\ side = "right") =>
                          currentRefPath' # Null /\ currentPath' = currentPath]_vars

\* In comparison mode with the divider at 0.5 a pointer-down at x-fraction 0.9
\* has started a stroke in the right pane.
C8_Witness ==
    /\ event # Null
    /\ event.op = "pointerdown"
    /\ isComparing
    /\ sliderPos = Q(1, 2)
    /\ event.pos.x = 900
    /\ activeSide = "right"
    /\ currentRefPath # Null
    /\ currentPath = Null

\* ... one at x-fraction 0.1 has started a stroke in the left pane
C8_WitnessLeft ==
    /\ event # Null
    /\ isComparing
    /\ event.pos.x = 100
    /\ activeSide = "left"
    /\ currentPath # Null
    /\ currentRefPath = Null

\* ... and one in the tolerance band has left the registry empty
C8_WitnessBand ==
    /\ event # Null
    /\ isComparing
    /\ event.pos.x = 540
    /\ pointers = << >>
    /\ currentPath = Null
    /\ currentRefPath = Null

\* C19: the first point of a stroke started by a pointer-down at screen
\* position s is painted at s: by drawWorkspace for a stroke of the left pane,
\* by drawReference for a stroke of the right pane, in single-pane mode and in
\* comparison mode.
C19_DrawInvertsToWorld ==
    [][(event' # Null /\ event'.op = "pointerdown") =>
          LET s == WPt(R(event'.pos.x), R(event'.pos.y))
          IN  /\ (currentPath = Null /\ currentPath' # Null) =>
                     DrawWorkspaceAt(currentPath'.points[1]) = s
              /\ (currentRefPath = Null /\ currentRefPath' # Null) =>
                     DrawReferenceAt(currentRefPath'.points[1]) = s]_vars

\* C22: from the registration of a second pointer until the registry is empty
\* neither pane has an in-progress stroke, and no step changes a stroke list,
\* an undo stack or a redo stack: not the moves of the one pointer that is left
\* of the two, with the pen selected, nor the releases.
C22_NoInkAfterPinch ==
    /\ [](pinch => currentPath = Null /\ currentRefPath = Null)
    /\ [][(pinch \/ pinch') => Ink' = Ink]_vars

\* A stroke was in progress when the second pointer was registered, one of the
\* two pointers was released, and the one that is left has just moved, with
\* the pen selected
C22_Witness ==
    /\ pinch
    /\ gesture # Null
    /\ gesture.second
    /\ Len(pointers) = 1
    /\ tool = "pen"
    /\ event # Null
    /\ event.op = "pointermove"
    /\ event.id = pointers[1].id

(***************************************************************************)
(* SpecFit: the fits of the view.  Images are chosen and decoded, the view *)
(* is recentred, the window resized, the divider dragged, comparison mode  *)
(* toggled and the wheel turned.                                           *)
(***************************************************************************)
ViewPositions == {Pt(100, 100), Pt(900, 100)}

\* Wheel deltas: one notch up, one notch down
WheelDeltas == {-100, 100}

\* The wheel is turned up
FitWheelDeltas == {-100}

\* An image of 50 x 50 pixels: its fit to a pane 1000 wide and 1000 high is
\* 0.9 * 20, its fit to a pane 500 wide or 500 high 0.9 * 10
ViewImages == {[id |-> 2, width |-> 50, height |-> 50]}

ViewRects == {[width |-> 1000, height |-> 1000], [width |-> 1000, height |-> 500]}

\* Where a slider drag goes: to the left edge and to the middle
SliderXs == {0, 500}

FChooseFile ==
    /\ pendingFile = Null
    /\ \E img \in ViewImages : EvLoader("view", "handleFile", handleFile(img))

FOnload ==
    /\ pendingFile # Null
    /\ EvLoader("view", "imgOnload", imgOnload(pendingFile))
    /\ pendingFile' = Null
    /\ UNCHANGED pendingRefFile

FChooseReference ==
    /\ pendingRefFile = Null
    /\ \E img \in ViewImages : EvLoader("view", "handleReferenceFile", handleReferenceFile(img))

FRefOnload ==
    /\ pendingRefFile # Null
    /\ EvLoader("view", "refImgOnload", refImgOnload(pendingRefFile))
    /\ pendingRefFile' = Null
    /\ UNCHANGED pendingFile

FRecenter == Ev("view", "recenter", recenterImage)

FRecenterReference == Ev("view", "recenterReference", recenterReferenceImage)

FDoubleClick ==
    \E pos \in ViewPositions :
        Ev("view", IF isComparing /\ RGt(XPct(pos), sliderPos)
                   THEN "recenterReference" ELSE "recenter", onDoubleClick(pos))

FResize == \E r \in ViewRects : Ev("view", "resize", handleResize(r))

FSliderDown == isComparing /\ Ev("view", "sliderDown", handleSliderDown)

FSliderMove == isComparing /\ \E x \in SliderXs : Ev("view", "sliderMove", handleSliderMove(x))

FSliderUp == isComparing /\ Ev("view", "sliderUp", handleSliderUp)

FToggleCompare == Ev("view", "toggleCompare", toggleCompare)

FWheel == \E pos \in ViewPositions, deltaY \in FitWheelDeltas : EvWheel("view", pos, deltaY)

NextFit ==
    \/ FChooseFile
    \/ FOnload
    \/ FChooseReference
    \/ FRefOnload
    \/ FRecenter
    \/ FRecenterReference
    \/ FDoubleClick
    \/ FResize
    \/ FSliderDown
    \/ FSliderMove
    \/ FSliderUp
    \/ FToggleCompare
    \/ FWheel

SpecFit == Init /\ [][NextFit]_vars

(***************************************************************************)
(* SpecZoom: zoom and pan.  Two touch pointers pan and pinch with the hand *)
(* tool, the wheel zooms, in single-pane and in comparison mode; an image  *)
(* is loaded into the left pane.                                           *)
(***************************************************************************)
ViewTouches == {2, 3}

ZSetTool == Ev("view", "setTool", setTool("hand"))

ZDown ==
    /\ tool = "hand"
    /\ \E id \in ViewTouches, pos \in ViewPositions : EvPointerDown("view", id, pos, 0)

ZMove == \E id \in ViewTouches, pos \in ViewPositions : EvPointerMove("view", id, pos)

ZUp == \E id \in ViewTouches : EvPointerUp("view", id)

ZWheel == \E pos \in ViewPositions, deltaY \in WheelDeltas : EvWheel("view", pos, deltaY)

ZToggleCompare == Ev("view", "toggleCompare", toggleCompare)

ZLoadImage == \E img \in ViewImages : Ev("view", "imgOnload", imgOnload(FileClosure(img)))

NextZoom ==
    \/ ZSetTool
    \/ ZDown
    \/ ZMove
    \/ ZUp
    \/ ZWheel
    \/ ZToggleCompare
    \/ ZLoadImage

SpecZoom == Init /\ [][NextZoom]_vars

(***************************************************************************)
(* Properties of SpecFit and SpecZoom                                      *)
(***************************************************************************)
\* 0.1 <= k <= 10 (false of NaN)
KInRange(k) == RLe(MinK, k) /\ RLe(k, MaxK)

\* C4: in every reachable state the scale k of the left pane's transform and
\* that of the right pane's are both within [0.1, 10].
C4_KWithinBounds == KInRange(transform.k) /\ KInRange(refTransform.k)

\* C5: a zoom or pan step (a wheel step, a pointer move that changes a
\* transform) taken with both scales within [0.1, 10] leaves both within
\* [0.1, 10], and a wheel step up at scale 10 leaves the scale at 10.
C5_ZoomKeepsK ==
    [][/\ (viewSteps' # viewSteps /\ KInRange(transform.k) /\ KInRange(refTransform.k)) =>
              (KInRange(transform'.k) /\ KInRange(refTransform'.k))
       /\ (event' # Null /\ event'.op = "wheel" /\ event'.button < 0) =>
              /\ transform.k = MaxK => transform'.k = MaxK
              /\ refTransform.k = MaxK => refTransform'.k = MaxK]_vars

\* The world point that a pane's screen-to-world conversion assigns to the
\* client position pos under the transform t
WorldAt(side, pos, t) ==
    LET cx == IF side = "left" THEN Q(rect.width, 2)
              ELSE RAdd(RMul(R(rect.width), sliderPos),
                        RDiv(RMul(R(rect.width), RSub(R(1), sliderPos)), R(2)))
    IN  ToWorld(pos, cx, Q(rect.height, 2), t)

\* C6: a wheel step at the cursor position s that takes the scale of the
\* pane under the cursor from a value within [0.1, 10] to a value within
\* [0.1, 10] leaves the world point of s in that pane as it was.
C6_ZoomKeepsAnchor ==
    [][(event' # Null /\ event'.op = "wheel") =>
          LET side == IF isComparing /\ RGt(Q(event'.pos.x, rect.width), sliderPos)
                      THEN "right" ELSE "left"
          IN  IF side = "left"
              THEN (KInRange(transform.k) /\ KInRange(transform'.k)) =>
                       WorldAt("left", event'.pos, transform)
                           = WorldAt("left", event'.pos, transform')
              ELSE (KInRange(refTransform.k) /\ KInRange(refTransform'.k)) =>
                       WorldAt("right", event'.pos, refTransform)
                           = WorldAt("right", event'.pos, refTransform')]_vars

\* C26: while a gesture is in progress (a pointer is registered or the middle
\* button pans) no step changes the active pane: the pane chosen by the
\* pointer-down that started the gesture stays the target of its steps.
C26_ActivePaneFixed ==
    [][(pointers # << >> \/ isMiddleMousePanning) => activeSide' = activeSide]_vars

\* Whether every component of a transform is a finite number
FiniteTransform(t) == IsFinite(t.x) /\ IsFinite(t.y) /\ IsFinite(t.k)

\* C21: no transform ever holds NaN or an infinity in x, y or k, and a pointer
\* move with two pointers registered, in which the distance between the two
\* is zero now or was zero at the last record, leaves both scales as they were.
C21_DegeneratePinchKeepsK ==
    /\ [](FiniteTransform(transform) /\ FiniteTransform(refTransform))
    /\ [][(/\ Len(pointers) = 2
           /\ Len(pointers') = 2
           /\ pressed' = pressed
           /\ event' = Null
           /\ UNCHANGED <<tool, isComparing, image, rect>>
           /\ (gestureState.lastDist = R(0) \/ gestureState'.lastDist = R(0))) =>
              (transform'.k = transform.k /\ refTransform'.k = refTransform.k)]_vars

(***************************************************************************)
(* SpecSlider: the divider.  It is dragged beyond both edges of the        *)
(* container while images are loaded, the view recentred, the window       *)
(* resized and comparison mode toggled.                                    *)
(***************************************************************************)
SliderDragXs == {-200, 300, 1500}

SSliderDown == isComparing /\ Ev("view", "sliderDown", handleSliderDown)

SSliderMove ==
    isComparing /\ \E x \in SliderDragXs : Ev("view", "sliderMove", handleSliderMove(x))

SSliderUp == isComparing /\ Ev("view", "sliderUp", handleSliderUp)

SToggleCompare == Ev("view", "toggleCompare", toggleCompare)

SResize == \E r \in ViewRects : Ev("view", "resize", handleResize(r))

SLoadImage == \E img \in ViewImages : Ev("view", "imgOnload", imgOnload(FileClosure(img)))

SLoadReference ==
    \E img \in ViewImages : Ev("view", "refImgOnload", refImgOnload(FileClosure(img)))

SRecenter == Ev("view", "recenter", recenterImage)

SRecenterReference == Ev("view", "recenterReference", recenterReferenceImage)

NextSlider ==
    \/ SSliderDown
    \/ SSliderMove
    \/ SSliderUp
    \/ SToggleCompare
    \/ SResize
    \/ SLoadImage
    \/ SLoadReference
    \/ SRecenter
    \/ SRecenterReference

SpecSlider == Init /\ [][NextSlider]_vars

(***************************************************************************)
(* Properties of SpecSlider                                                *)
(***************************************************************************)
\* C12: the divider position is within [0, 1] in every reachable state, and
\* no step taken while no slider drag is active changes it.
C12_SliderWithinUnit ==
    /\ [](RLe(R(0), sliderPos) /\ RLe(sliderPos, R(1)))
    /\ [][~isDraggingSlider => sliderPos' = sliderPos]_vars

\* The divider was dragged beyond the right edge of the container and stands
\* at 1.
C12_Witness == isDraggingSlider /\ sliderPos = R(1)

\* A slider move arrived while no drag was active: the divider was dragged
\* beyond the left edge, released, and stays at 0.
C12_WitnessIdle == ~isDraggingSlider /\ sliderPos = R(0)

(***************************************************************************)
(* SpecFrame: the redraw scheduler.  A pointer draws, the divider is       *)
(* dragged, comparison mode is toggled and images are loaded, while the    *)
(* browser runs the animation frames, React renders the state changes that *)
(* img.onload made, and the component is unmounted.  React renders the     *)
(* state changes of its own events before the handler's step ends; it      *)
(* renders those of img.onload, which React does not dispatch, in a task   *)
(* of its scheduler, and an animation frame can come before that task.     *)
(***************************************************************************)
FramePositions == {Pt(100, 100)}

FrameMovePositions == {Pt(300, 100)}

FrameImages == {[id |-> 3, width |-> 50, height |-> 50]}

FrameSliderXs == {300}

\* React has rendered every state change
Settled == rendered = DrawClosure

\* if (cur) renderPathToContext(ctx, cur)
RenderedInProgress(cur) == IF cur = Null THEN << >> ELSE <<cur>>

\* The layers drawWorkspace paints over the background: the image (Null if it
\* is skipped) and the strokes, in the order they are rendered
drawWorkspace(draw) ==
    [image |-> draw.image, strokes |-> paths \o RenderedInProgress(currentPath)]

\* The layers drawReference paints over the background
drawReference(draw) ==
    IF draw.referenceImage # Null
    THEN [image |-> draw.referenceImage, strokes |-> refPaths \o RenderedInProgress(currentRefPath)]
    ELSE [image |-> Null, strokes |-> << >>]

\* What draw paints: the images, the comparison flag and the divider as the
\* closure has them, the transforms and the strokes as the refs hold them;
\* the layers of the left region and, in comparison mode, of the right one
Painted(draw) ==
    [image |-> draw.image, referenceImage |-> draw.referenceImage,
     isComparing |-> draw.isComparing, sliderPos |-> draw.sliderPos,
     transform |-> transform, refTransform |-> refTransform,
     paths |-> paths, refPaths |-> refPaths,
     currentPath |-> currentPath, currentRefPath |-> currentRefPath,
     left |-> drawWorkspace(draw),
     right |-> IF draw.isComparing THEN drawReference(draw) ELSE Null]

\* The browser runs the callbacks of the pending frame requests
Tick ==
    /\ rafQueue # << >>
    /\ animFrameRef' = Null
    /\ rafQueue' = << >>
    /\ shown' = [i \in 1..Len(rafQueue) |-> Painted(rafQueue[i].draw)]
    /\ calls' = 0
    /\ UNCHANGED <<progVars, loaderVars, rendered, mounted,
                   pressed, law, gesture, event, viewSteps, snap, pinch, heap, workerVars>>

\* React renders the state changes that img.onload made
Render ==
    /\ mounted
    /\ ~Settled
    /\ rendered' = DrawClosure
    /\ animFrameRef' = Rerender(<<animFrameRef, rafQueue>>, DrawClosure)[1]
    /\ rafQueue' = Rerender(<<animFrameRef, rafQueue>>, DrawClosure)[2]
    /\ shown' = << >>
    /\ calls' = IF calls < MaxCalls THEN calls + 1 ELSE calls
    /\ UNCHANGED <<progVars, loaderVars, mounted,
                   pressed, law, gesture, event, viewSteps, snap, pinch, heap, workerVars>>

\* The component is unmounted: the cleanup of the resize effect
Teardown ==
    /\ mounted
    /\ mounted' = FALSE
    /\ animFrameRef' = Cleanup(<<animFrameRef, rafQueue>>)[1]
    /\ rafQueue' = Cleanup(<<animFrameRef, rafQueue>>)[2]
    /\ shown' = << >>
    /\ UNCHANGED <<progVars, loaderVars, rendered, calls,
                   pressed, law, gesture, event, viewSteps, snap, pinch, heap, workerVars>>

RDown ==
    /\ Settled
    /\ \E pos \in FramePositions : EvPointerDown("frame", 1, pos, 0)
    /\ GestureBounded'

RMove == Settled /\ \E pos \in FrameMovePositions : EvPointerMove("frame", 1, pos)

RUp == Settled /\ EvPointerUp("frame", 1)

RSliderDown == Settled /\ isComparing /\ Ev("frame", "sliderDown", handleSliderDown)

RSliderMove ==
    /\ Settled
    /\ isComparing
    /\ \E x \in FrameSliderXs : Ev("frame", "sliderMove", handleSliderMove(x))

RSliderUp == Settled /\ isComparing /\ Ev("frame", "sliderUp", handleSliderUp)

RToggleCompare == Settled /\ Ev("frame", "toggleCompare", toggleCompare)

RLoadImage ==
    /\ Settled
    /\ \E img \in FrameImages :
           /\ img # image
           /\ EvLoader("frame", "imgOnload",
                       imgOnload(FileClosure(img)) /\ UNCHANGED loaderVars)

RLoadReference ==
    /\ Settled
    /\ \E img \in FrameImages :
           /\ img # referenceImage
           /\ EvLoader("frame", "refImgOnload",
                       refImgOnload(FileClosure(img)) /\ UNCHANGED loaderVars)

NextFrame ==
    \/ RDown
    \/ RMove
    \/ RUp
    \/ RSliderDown
    \/ RSliderMove
    \/ RSliderUp
    \/ RToggleCompare
    \/ RLoadImage
    \/ RLoadReference
    \/ Render
    \/ Tick
    \/ Teardown

SpecFrame == Init /\ [][NextFrame]_vars

(***************************************************************************)
(* Properties of SpecFrame                                                 *)
(***************************************************************************)
\* C13: at most one frame request is pending: the browser holds at most one
\* callback, the marker is set exactly while it holds one and names it; however
\* many times requestRedraw was called since the last tick, one callback is
\* pending while the component is mounted, and a tick runs draw once.
C13_OneFramePending ==
    /\ [](/\ Len(rafQueue) <= 1
          /\ (animFrameRef = Null) = (rafQueue = << >>)
          /\ (rafQueue # << >> => rafQueue[1].id = animFrameRef)
          /\ (mounted /\ calls > 0 => Len(rafQueue) = 1))
    /\ [][rafQueue # << >> /\ rafQueue' = << >> /\ mounted' =>
              Len(shown') = 1]_vars

\* requestRedraw was called more than once since the last tick and one request
\* is pending
C13_Witness == mounted /\ calls = MaxCalls /\ Len(rafQueue) = 1

\* A tick ran draw once after more than one call
C13_WitnessTick == Len(shown) = 1 /\ calls = 0

\* C14: once the effect cleanup has run at unmount, no frame request is pending
\* and the marker is clear, so that no draw runs for the request that was
\* pending; the cleanup itself calls requestRedraw no more.
C14_TeardownCancels ==
    /\ [](~mounted => animFrameRef = Null /\ rafQueue = << >> /\ shown = << >>)
    /\ [][mounted /\ ~mounted' => calls' = calls]_vars

\* The component was unmounted while a frame request was pending: requestRedraw
\* had been called since the last tick
C14_Witness == ~mounted /\ calls > 0 /\ animFrameRef = Null

\* C15: what a draw at a tick paints is the state as it is at the tick: the
\* images, the comparison flag, the divider position, the transforms and the
\* strokes after every change made before the tick.
C15_FrameShowsCurrentState ==
    \A i \in 1..Len(shown) : shown[i] = Painted(DrawClosure)

(***************************************************************************)
(* SpecRedraw: every handler that changes what is painted, with the frame  *)
(* scheduler.  A mouse draws with its left button and pans with its middle *)
(* button, the wheel zooms, strokes are undone, redone and cleared, an     *)
(* image is loaded, the view recentred and the window resized; the browser *)
(* runs the pending frames, every pending frame in the end (it refreshes   *)
(* the display as long as the page is shown), and React's scheduler runs   *)
(* the render that img.onload left pending.                                *)
(***************************************************************************)
\* The pointer goes down at the centre of the container and moves to the right
RedrawPositions == {Pt(500, 500)}

RedrawMovePositions == {Pt(550, 500)}

RedrawWheelDeltas == {-100}

\* The window is resized while no stroke is in progress
RedrawRects == {[width |-> 1000, height |-> 900]}

\* An image of 450 x 450 pixels: its fit to a container 1000 wide is 2 at
\* height 1000 and 1.8 at height 900
RedrawImages == {[id |-> 4, width |-> 450, height |-> 450]}

\* The zoom and pan steps of SpecRedraw
MaxRedrawSteps == 1

\* What SpecRedraw allows: one stroke, committed or in progress, one snapshot
\* on the left pane's stacks, the zoom and pan steps
RedrawBounded ==
    /\ GestureBounded
    /\ Len(history) + Len(redoStack) <= MaxGestureStrokes
    /\ viewSteps <= MaxRedrawSteps

WDown ==
    /\ Settled
    /\ \E pos \in RedrawPositions, button \in ButtonsOf(Mouse) :
           EvPointerDown("frame", Mouse, pos, button)
    /\ RedrawBounded'

WMove ==
    /\ Settled
    /\ \E pos \in RedrawMovePositions : EvPointerMove("frame", Mouse, pos)
    /\ RedrawBounded'

WUp == Settled /\ EvPointerUp("frame", Mouse) /\ RedrawBounded'

WWheel ==
    /\ Settled
    /\ \E pos \in RedrawPositions, deltaY \in RedrawWheelDeltas : EvWheel("frame", pos, deltaY)
    /\ RedrawBounded'

WUndo == Settled /\ Ev("frame", "undo", handleUndo) /\ RedrawBounded'

WRedo == Settled /\ Ev("frame", "redo", handleRedo) /\ RedrawBounded'

WClear == Settled /\ Ev("frame", "clear", handleClear) /\ RedrawBounded'

WRecenter == Settled /\ Ev("frame", "recenter", recenterImage) /\ RedrawBounded'

WResize ==
    /\ Settled
    /\ currentPath = Null
    /\ \E r \in RedrawRects : Ev("frame", "resize", handleResize(r))
    /\ RedrawBounded'

WLoadImage ==
    /\ Settled
    /\ \E img \in RedrawImages :
           /\ img # image
           /\ EvLoader("frame", "imgOnload",
                       imgOnload(FileClosure(img)) /\ UNCHANGED loaderVars)
    /\ RedrawBounded'

WTick == Tick /\ mounted' = mounted

WRender == Render /\ mounted' = mounted

WTeardown == Teardown /\ ~mounted'

NextRedraw ==
    \/ WDown
    \/ WMove
    \/ WUp
    \/ WWheel
    \/ WUndo
    \/ WRedo
    \/ WClear
    \/ WRecenter
    \/ WResize
    \/ WLoadImage
    \/ WTick
    \/ WRender
    \/ WTeardown

SpecRedraw == Init /\ [][NextRedraw]_vars /\ WF_vars(WTick) /\ WF_vars(WRender)

(***************************************************************************)
(* Properties of SpecRedraw                                                *)
(***************************************************************************)
\* The step changes a transform, a stroke list or an in-progress stroke
Changes ==
    \/ viewVars' # viewVars
    \/ paths' # paths
    \/ refPaths' # refPaths
    \/ strokeVars' # strokeVars

\* A frame request is pending, or a render is that will issue one
FrameDue == rafQueue # << >> \/ ~Settled

\* C23: after a handler step that changes a transform, a stroke list or an
\* in-progress stroke, with the component mounted, a frame request is pending or
\* the render that issues one is; while the component stays mounted a draw
\* follows in the end; and a draw runs only in a step that runs the pending
\* frame callbacks, in which no handler changes the program's state.
C23_ChangeLeadsToDraw ==
    /\ [][(Changes /\ mounted') => FrameDue']_vars
    /\ (mounted /\ FrameDue) ~> (shown # << >> \/ ~mounted)
    /\ [][shown' # << >> =>
              (rafQueue # << >> /\ rafQueue' = << >> /\ progVars' = progVars)]_vars

\* A frame has painted a committed stroke after a wheel step
C23_Witness ==
    /\ mounted
    /\ Len(shown) = 1
    /\ shown[1].paths # << >>
    /\ shown[1].transform.k # R(1)
    /\ rafQueue = << >>

(***************************************************************************)
(* SpecRelease: the ways a pointer is released.  A mouse (pointer 1) with  *)
(* its left and middle buttons and a finger (pointer 2) go down, move, and *)
(* are released by pointerup, pointercancel or pointerleave.               *)
(***************************************************************************)
ReleasePointers == {Mouse, 2}

ReleasePositions == {Pt(100, 100)}

ReleaseMovePositions == {Pt(300, 100)}

PDown ==
    /\ \E id \in ReleasePointers, pos \in ReleasePositions :
           \E button \in ButtonsOf(id) : EvPointerDown("pointer", id, pos, button)
    /\ GestureBounded'

PMove ==
    \E id \in ReleasePointers, pos \in ReleaseMovePositions :
        EvPointerMove("pointer", id, pos)

PUp == \E id \in ReleasePointers : EvPointerUp("pointer", id)

PCancel ==
    /\ AnyPressed
    /\ \E id \in ReleasePointers, button \in CancelButtons :
           EvPointerCancel("pointer", "pointercancel", id, button)

PLeave ==
    /\ \E id \in ReleasePointers : pressed[id] = NoButton
    /\ \E id \in ReleasePointers, button \in CancelButtons :
           EvPointerCancel("pointer", "pointerleave", id, button)

NextRelease ==
    \/ PDown
    \/ PMove
    \/ PUp
    \/ PCancel
    \/ PLeave

SpecRelease == Init /\ [][NextRelease]_vars

(***************************************************************************)
(* Properties of SpecRelease                                               *)
(***************************************************************************)
\* The registry, the in-progress strokes, the gesture state and the panning
\* state
ReleaseState ==
    <<pointers, currentPath, currentRefPath, gestureState,
      isMiddleMousePanning, middleMouseLastPos>>

\* ... as a pointerup of pointer id that releases button leaves them
AfterUp(id, button) ==
    IF isMiddleMousePanning /\ button = 1
    THEN <<pointers, currentPath, currentRefPath, gestureState, FALSE, Null>>
    ELSE LET pts == MapDelete(pointers, id)
         IN  <<pts, Null, Null,
               IF Len(pts) = 1 THEN [gestureState EXCEPT !.lastPos = pts[1].pos]
               ELSE gestureState,
               isMiddleMousePanning, middleMouseLastPos>>

\* No pointer is registered, no stroke is in progress and no pan is active
Idle ==
    /\ pointers = << >>
    /\ currentPath = Null
    /\ currentRefPath = Null
    /\ ~isMiddleMousePanning

\* C18: a pointercancel or pointerleave of a pointer leaves the registry, the
\* in-progress strokes, the gesture state and the panning state as a pointerup
\* of that pointer would (the pointerup releases the button the pointer holds),
\* and the dispatcher is idle whenever no pointer holds a button.
C18_CancelLikeUp ==
    /\ [][(event' # Null /\ event'.op \in {"pointercancel", "pointerleave"}) =>
              ReleaseState' = AfterUp(event'.id,
                                      IF pressed[event'.id] = NoButton THEN 0
                                      ELSE pressed[event'.id])]_vars
    /\ [](~AnyPressed => Idle)

\* C25: while a stroke is in progress the registry holds one pointer, the one
\* whose pointer-down started the stroke, and a pointerup, pointercancel or
\* pointerleave that commits the stroke or ends it is an event of that pointer.
C25_OnlyStarterCommits ==
    /\ []((currentPath # Null \/ currentRefPath # Null) => Len(pointers) = 1)
    /\ [][(/\ event' # Null
           /\ event'.op \in {"pointerup", "pointercancel", "pointerleave"}
           /\ \/ currentPath # Null /\ currentPath' = Null
              \/ currentRefPath # Null /\ currentRefPath' = Null) =>
              event'.id = pointers[1].id]_vars

(***************************************************************************)
(* SpecCount: the number of registered pointers.  Up to three fingers go   *)
(* down, move and are released, with the hand tool.                        *)
(***************************************************************************)
CountTouches == {1, 2, 3}

\* Where each finger goes down
CountPosition(id) == Pt(400 * id - 300, 100)

CountMovePositions == {Pt(500, 100)}

\* The zoom and pan steps of SpecCount
MaxCountSteps == 1

NSetTool == tool # "hand" /\ Ev("view", "setTool", setTool("hand"))

NDown ==
    /\ tool = "hand"
    /\ \E id \in CountTouches : EvPointerDown("view", id, CountPosition(id), 0)

NMove ==
    /\ tool = "hand"
    /\ \E id \in CountTouches, pos \in CountMovePositions : EvPointerMove("view", id, pos)
    /\ viewSteps' <= MaxCountSteps

NUp == tool = "hand" /\ \E id \in CountTouches : EvPointerUp("view", id)

NextCount ==
    \/ NSetTool
    \/ NDown
    \/ NMove
    \/ NUp

SpecCount == Init /\ [][NextCount]_vars

(***************************************************************************)
(* Properties of SpecCount                                                 *)
(***************************************************************************)
\* C20: a step that changes the number of registered pointers leaves the
\* gesture state of the new number taken from the positions the registry then
\* holds: lastDist and lastCenter from the two pointers on arriving at two,
\* lastPos from the one pointer on arriving at one.
C20_CountChangeReinitialises ==
    [][Len(pointers') # Len(pointers) =>
          /\ Len(pointers') = 2 =>
                 /\ gestureState'.lastDist = GetDist(pointers'[1].pos, pointers'[2].pos)
                 /\ gestureState'.lastCenter = GetCenter(pointers'[1].pos, pointers'[2].pos)
          /\ Len(pointers') = 1 =>
                 gestureState'.lastPos = pointers'[1].pos]_vars

(***************************************************************************)
(* SpecSnap: snapToEdge is called with cursors on, near and far from the   *)
(* images' edges, with no previous points, too few, and previous points    *)
(* that run right, down and diagonally (to the right and down, and to the  *)
(* left and up).                                                           *)
(***************************************************************************)
SnapXs == {R(-30), R(-2), Q(-23, 10), R(0), R(5), Q(11, 2)}

SnapYs == {R(0), Q(1, 5)}

SnapPrevPoints ==
    {Null,
     <<WPt(R(0), R(0)), WPt(R(2), R(0))>>,
     <<WPt(R(0), R(0)), WPt(R(2), R(0)), WPt(R(4), R(0))>>,
     <<WPt(R(0), R(0)), WPt(R(0), R(2)), WPt(R(0), R(4))>>,
     <<WPt(R(0), R(0)), WPt(R(3), R(4)), WPt(R(6), R(8))>>,
     <<WPt(R(8), R(6)), WPt(R(4), R(3)), WPt(R(0), R(0))>>}

Snap ==
    /\ snap = Null
    /\ \E x \in SnapXs, y \in SnapYs, img \in SnapImages \cup {Null},
           prevPoints \in SnapPrevPoints :
           /\ snap' = [in  |-> [x |-> x, y |-> y, image |-> img, prevPoints |-> prevPoints],
                       out |-> snapToEdge(x, y, img, prevPoints)]
           /\ CacheAfterSnap([x |-> x, y |-> y, image |-> img, prevPoints |-> prevPoints])
    /\ UNCHANGED <<inkVars, viewVars, strokeVars, pointerVars, uiVars, imageVars,
                   loaderVars, frameVars,
                   pressed, law, gesture, event, viewSteps, shown, calls, pinch, heap, workerVars>>

NextSnap == Snap

SpecSnap == Init /\ [][NextSnap]_vars

(***************************************************************************)
(* Properties of SpecSnap                                                  *)
(***************************************************************************)
\* The window of the call has candidate pixels and each has an edgeStrength
\* below 5
AllBelowFloor(in) ==
    /\ in.image # Null
    /\ \E win \in {SnapWindow(in.x, in.y, in.image)} :
           /\ win.endX - win.startX > 2
           /\ win.endY - win.startY > 2
           /\ \A px \in win.startX..(win.endX - 1), py \in win.startY..(win.endY - 1) :
                  \E es \in {EdgeStrength(in.image, px, py)} : RLt(es, R(5))

\* C16: snapToEdge returns the world point it was given when every candidate
\* pixel of the window has an edgeStrength below 5, with a drawing direction
\* and without one.
C16_NoEdgeNoSnap ==
    (snap # Null /\ AllBelowFloor(snap.in)) => snap.out = WPt(snap.in.x, snap.in.y)

\* A call on the image with the faint edge, the cursor next to the edge, with
\* a drawing direction across it
C16_Witness ==
    /\ snap # Null
    /\ AllBelowFloor(snap.in)
    /\ snap.in.image.id = 6
    /\ snap.in.x = Q(-23, 10)
    /\ Direction(snap.in.prevPoints).has
    /\ Direction(snap.in.prevPoints).x = R(1)

\* ... and with no previous points
C16_WitnessNoDirection ==
    /\ snap # Null
    /\ AllBelowFloor(snap.in)
    /\ snap.in.image.id = 6
    /\ snap.in.prevPoints = Null

\* The square of the distance of the returned point from the cursor
SnapDistSq ==
    Once2(LAMBDA dx, dy : Add(Mul(dx, dx), Mul(dy, dy)),
          RSub(snap.out.x, snap.in.x), RSub(snap.out.y, snap.in.y))

\* C17: the point snapToEdge returns is at most 6 from the world point it was
\* given, up to the rounding of the square root in the clamp: the square of
\* the distance is at most 36 1/2.
C17_SnapWithinSix ==
    snap # Null =>
        \E sq \in {SnapDistSq} :
            \/ sq.n \div sq.d < 36
            \/ sq.n \div sq.d = 36 /\ 2 * (sq.n % sq.d) <= sq.d

\* The best pixel was more than 6 away and the snap was clamped
C17_Witness ==
    /\ snap # Null
    /\ snap.in.image # Null
    /\ snap.in.image.id = 7
    /\ SnapDistSq.n \div SnapDistSq.d >= 36

\* The snap was not clamped: the returned point is the best pixel
C17_WitnessNear ==
    /\ snap # Null
    /\ SnapDistSq.n > 0
    /\ SnapDistSq.n \div SnapDistSq.d < 36

(***************************************************************************)
(* SpecMagnet: strokes of the magnet tool and of the pen.  An image with a *)
(* strong vertical edge is loaded into the left pane and one with a        *)
(* horizontal edge into the right pane, both 20 x 8; the left one is       *)
(* replaced.  A finger draws in the only pane, then in the two panes in    *)
(* turn.  With the first image fitted to the container (k = 45) the        *)
(* positions are whole world units, on the image's rows.                   *)
(***************************************************************************)
\* The greatest number of points of a stroke
MaxPoints == 2

MagnetImages == {[id |-> i, width |-> 20, height |-> 8] : i \in {6, 7}}

MagnetReferences == {[id |-> 8, width |-> 20, height |-> 8]}

\* Where the finger goes down and where it moves to: in the only pane at the
\* world points 9 and -2, then -9 and -2; in comparison mode in the left pane
\* at -2, then -3, and in the right pane at 0, then 4
MagnetDownPositions ==
    IF isComparing THEN {Pt(410, 500), Pt(750, 500)} ELSE {Pt(905, 500), Pt(410, 500)}

MagnetMovePositions ==
    IF isComparing THEN {Pt(365, 500), Pt(840, 500)}
    ELSE {Pt(95, 500), Pt(410, 500)}

\* The in-progress stroke has room for a point
PointsBounded ==
    /\ currentPath # Null => Len(currentPath.points) < MaxPoints
    /\ currentRefPath # Null => Len(currentRefPath.points) < MaxPoints

MDown ==
    /\ tool = "magnet"
    /\ \E pos \in MagnetDownPositions : EvPointerDown("magnet", 2, pos, 0)

MMove ==
    /\ PointsBounded
    /\ \E pos \in MagnetMovePositions : EvPointerMove("magnet", 2, pos)

MUp == EvPointerUp("magnet", 2)

MSetTool == pointers = << >> /\ tool = "pen" /\ Ev("magnet", "setTool", setTool("magnet"))

MLoadImage ==
    \E img \in MagnetImages :
        /\ pointers = << >>
        /\ image # img
        /\ image = Null => img.id = 7
        /\ Ev("magnet", "imgOnload", imgOnload(FileClosure(img)))

MLoadReference ==
    \E img \in MagnetReferences :
        /\ pointers = << >>
        /\ image # Null
        /\ referenceImage = Null
        /\ Ev("magnet", "refImgOnload", refImgOnload(FileClosure(img)))

NextMagnet ==
    \/ MDown
    \/ MMove
    \/ MUp
    \/ MSetTool
    \/ MLoadImage
    \/ MLoadReference

SpecMagnet == Init /\ [][NextMagnet]_vars

(***************************************************************************)
(* Properties of SpecMagnet                                                *)
(***************************************************************************)
\* C27: whenever snapToEdge reads pixels, the analysis canvas holds the pixels
\* of the image passed as target; the canvas is drawn anew exactly when the
\* target is not the image whose identity the cache holds, and no other step
\* changes what the canvas holds.
C27_CacheServesTarget ==
    /\ [](analysisImageRef # Null => analysisCanvas = analysisImageRef)
    /\ [][IF snap' # Null /\ snap'.read # Null
          THEN /\ snap'.read = snap'.in.image
               /\ snap'.decoded = (analysisImageRef # snap'.in.image)
               /\ analysisImageRef' = snap'.in.image
               /\ analysisCanvas' = snap'.in.image
               /\ ~snap'.decoded => cacheVars' = cacheVars
          ELSE analysisCanvas' = analysisCanvas]_vars

\* In comparison mode, after a magnet stroke in the right pane and the load of
\* another image into the left pane, a stroke of the left pane reads pixels
\* and the canvas is drawn from the new image
C27_Witness ==
    /\ snap # Null
    /\ snap.read # Null
    /\ snap.decoded
    /\ isComparing
    /\ refPaths # << >>
    /\ image.id = 6
    /\ snap.in.image = image
    /\ analysisCanvas = image

\* A call reads the pixels the canvas already holds
C27_WitnessHit ==
    /\ snap # Null
    /\ snap.read # Null
    /\ ~snap.decoded
    /\ snap.read = referenceImage

\* The stroke that the pointer event just handled belongs to
ActivePath == IF activeSide = "left" THEN currentPath ELSE currentRefPath

\* The raw world position of a pointer event at pos
RawWp(pos) ==
    IF activeSide = "left" THEN ToWorkspaceWorld(pos) ELSE ToReferenceWorld(pos)

\* The square of the distance of a stroke's last point from the point raw
DriftSq(path, raw) ==
    Once2(LAMBDA dx, dy : Add(Mul(dx, dx), Mul(dy, dy)),
          RSub(path.points[Len(path.points)].x, raw.x),
          RSub(path.points[Len(path.points)].y, raw.y))

\* C28: with the magnet tool, a point appended on a pointer-move is at most 4
\* from the raw world position of the event, up to the rounding of the square
\* root in the clamp: the square of the distance is at most 16 1/4.
C28_MagnetWithinFour ==
    [][(/\ tool = "magnet"
        /\ event' # Null
        /\ event'.op = "pointermove"
        /\ ActivePath # Null
        /\ ActivePath' # Null
        /\ Len(ActivePath'.points) = Len(ActivePath.points) + 1) =>
           \E sq \in {DriftSq(ActivePath', RawWp(event'.pos))} :
               \/ sq.n \div sq.d < 16
               \/ sq.n \div sq.d = 16 /\ 4 * (sq.n % sq.d) <= sq.d]_vars

\* A move with an image appended a point that the clamp had put at 4 from the
\* raw position
C28_Witness ==
    /\ tool = "magnet"
    /\ event # Null
    /\ event.op = "pointermove"
    /\ snap # Null
    /\ snap.read # Null
    /\ ActivePath # Null
    /\ Len(ActivePath.points) = 2
    /\ DriftSq(ActivePath, RawWp(event.pos)) = R(16)

\* ... and one whose smoothed point was nearer than 4 and was not clamped
C28_WitnessNear ==
    /\ tool = "magnet"
    /\ event # Null
    /\ event.op = "pointermove"
    /\ snap # Null
    /\ snap.read # Null
    /\ ActivePath # Null
    /\ Len(ActivePath.points) = 2
    /\ \E sq \in {DriftSq(ActivePath, RawWp(event.pos))} :
           sq.n > 0 /\ sq.n \div sq.d < 16

(***************************************************************************)
(* SpecSpacing: the spacing of the points of a stroke.  A finger draws     *)
(* with the pen, the eraser and the magnet, before an image is loaded (the *)
(* world is the screen, with its origin at the container's centre).  It    *)
(* goes down at the origin and moves to points at 1, sqrt 2, 2, 3 and 5    *)
(* from it.                                                                *)
(***************************************************************************)
\* The greatest number of points of a stroke of SpecSpacing
MaxSpacingPoints == 3

SpacingTools == {"pen", "eraser", "magnet"}

SpacingDownPositions == {Pt(500, 500)}

SpacingMovePositions ==
    {Pt(500, 500), Pt(501, 500), Pt(501, 501), Pt(502, 500), Pt(503, 500), Pt(503, 504)}

SpacingBounded ==
    /\ GestureBounded
    /\ currentPath # Null => Len(currentPath.points) <= MaxSpacingPoints

SDown ==
    \E pos \in SpacingDownPositions : EvPointerDown("magnet", 2, pos, 0) /\ SpacingBounded'

SMove ==
    \E pos \in SpacingMovePositions : EvPointerMove("magnet", 2, pos) /\ SpacingBounded'

SUp == EvPointerUp("magnet", 2)

SSetTool == \E t \in SpacingTools : tool # t /\ Ev("magnet", "setTool", setTool(t))

SClear == paths # << >> /\ Ev("magnet", "clear", handleClear)

NextSpacing ==
    \/ SDown
    \/ SMove
    \/ SUp
    \/ SSetTool
    \/ SClear

SpecSpacing == Init /\ [][NextSpacing]_vars

(***************************************************************************)
(* Properties of SpecSpacing                                               *)
(***************************************************************************)
\* Two consecutive points of the stroke are more than m apart
Spaced(path, m) ==
    \A i \in 1..(Len(path.points) - 1) :
        HypotGt(RSub(path.points[i + 1].x, path.points[i].x),
                RSub(path.points[i + 1].y, path.points[i].y), m)

\* C29: a pointer-move appends at most one point to the in-progress stroke,
\* and only one that is more than the minimum spacing from the stroke's last
\* point: 3 with the magnet, 1 with the pen and the eraser.  In every
\* in-progress and committed stroke two consecutive points are more than 1
\* apart.
C29_MinimumSpacing ==
    /\ [](/\ currentPath # Null => Spaced(currentPath, 1)
          /\ currentRefPath # Null => Spaced(currentRefPath, 1)
          /\ \A i \in 1..Len(paths) : Spaced(paths[i], 1)
          /\ \A i \in 1..Len(refPaths) : Spaced(refPaths[i], 1))
    /\ [][(/\ event' # Null
           /\ event'.op = "pointermove"
           /\ ActivePath # Null
           /\ ActivePath' # ActivePath) =>
              /\ ActivePath' # Null
              /\ Len(ActivePath'.points) = Len(ActivePath.points) + 1
              /\ SubSeq(ActivePath'.points, 1, Len(ActivePath.points)) = ActivePath.points
              /\ Spaced([points |-> SubSeq(ActivePath'.points, Len(ActivePath.points),
                                           Len(ActivePath'.points))],
                        IF tool = "magnet" THEN 3 ELSE 1)]_vars

\* With the magnet, a move to a point at 5 from the last one appended it
C29_Witness ==
    /\ tool = "magnet"
    /\ currentPath # Null
    /\ currentPath.points = <<WPt(R(0), R(0)), WPt(R(3), R(4))>>
    /\ event # Null
    /\ event.op = "pointermove"
    /\ event.pos = Pt(503, 504)

\* ... and a move to a point at 3 from the last one appended nothing
C29_WitnessNotAppended ==
    /\ tool = "magnet"
    /\ currentPath # Null
    /\ currentPath.points = <<WPt(R(0), R(0))>>
    /\ event # Null
    /\ event.op = "pointermove"
    /\ event.pos = Pt(503, 500)

\* A pen stroke with a point at sqrt 2 from the first, and a move to a point
\* at 1 from the last that appended nothing
C29_WitnessPen ==
    /\ tool = "pen"
    /\ currentPath # Null
    /\ currentPath.points = <<WPt(R(0), R(0)), WPt(R(1), R(1))>>
    /\ event # Null
    /\ event.op = "pointermove"
    /\ event.pos = Pt(501, 500)

(***************************************************************************)
(* SpecWheel: the wheel.  It is turned up, down and by a delta of zero     *)
(* over the left and the right half of the container, in single-pane and   *)
(* in comparison mode, before and after an image is loaded (whose fit has  *)
(* a scale above 10), while a finger draws a stroke with the pen.          *)
(***************************************************************************)
AllWheelDeltas == {-100, 0, 100}

\* Where the finger goes down and where it moves to
WheelDownPositions == {Pt(760, 500)}

WheelMovePositions == {Pt(770, 500)}

XDown == \E pos \in WheelDownPositions : EvPointerDown("view", 2, pos, 0) /\ GestureBounded'

XMove == \E pos \in WheelMovePositions : EvPointerMove("view", 2, pos)

XUp == EvPointerUp("view", 2)

XWheel == \E pos \in ViewPositions, deltaY \in AllWheelDeltas : EvWheel("view", pos, deltaY)

XToggleCompare == Ev("view", "toggleCompare", toggleCompare)

XLoadImage ==
    /\ image = Null
    /\ \E img \in ViewImages : Ev("view", "imgOnload", imgOnload(FileClosure(img)))

NextWheel ==
    \/ XDown
    \/ XMove
    \/ XUp
    \/ XWheel
    \/ XToggleCompare
    \/ XLoadImage

SpecWheel == Init /\ [][NextWheel]_vars

(***************************************************************************)
(* Properties of SpecWheel                                                 *)
(***************************************************************************)
\* A scale multiplied by f and brought into [0.1, 10]
Rescaled(k, f) ==
    LET z == RMul(k, f)
    IN  IF RLt(z, Q(1, 10)) THEN Q(1, 10) ELSE IF RGt(z, R(10)) THEN R(10) ELSE z

\* C31: a wheel step changes the k of one transform and nothing else of the
\* view, the pointers and the ink: the right pane's k in comparison mode with
\* the cursor's x-fraction greater than the divider position, the left
\* pane's otherwise; the new k is the old one times 1.1 for a negative
\* delta and times 0.9 for any other, brought into [0.1, 10].
C31_WheelScalesOnePane ==
    [][(event' # Null /\ event'.op = "wheel") =>
          LET right == isComparing /\ RGt(Q(event'.pos.x, rect.width), sliderPos)
              f     == IF event'.button < 0 THEN Q(11, 10) ELSE Q(9, 10)
          IN  /\ IF right
                 THEN /\ refTransform' = [refTransform EXCEPT !.k = Rescaled(@, f)]
                      /\ transform' = transform
                 ELSE /\ transform' = [transform EXCEPT !.k = Rescaled(@, f)]
                      /\ refTransform' = refTransform
              /\ pointers' = pointers
              /\ Ink' = Ink
              /\ strokeVars' = strokeVars]_vars

\* In comparison mode a wheel step with a delta of zero over the right half
\* has scaled the right pane by 0.9, while a stroke is in progress
C31_Witness ==
    /\ event # Null
    /\ event.op = "wheel"
    /\ event.button = 0
    /\ event.pos = Pt(900, 100)
    /\ isComparing
    /\ refTransform.k = Q(9, 10)
    /\ transform.k = R(1)
    /\ pointers # << >>
    /\ currentPath # Null \/ currentRefPath # Null

\* A wheel step up from the fit of the image has brought the scale to 10
C31_WitnessClamped ==
    /\ event # Null
    /\ event.op = "wheel"
    /\ event.button < 0
    /\ image # Null
    /\ transform.k = R(10)

(***************************************************************************)
(* SpecPaint: what a frame paints of the two panes.  A finger draws with   *)
(* the pen in the left and in the right half of the container, comparison  *)
(* mode is toggled and a reference image is loaded, while the browser runs  *)
(* the animation frames and React renders what img.onload changed.  No     *)
(* image is loaded into the left pane.                                     *)
(***************************************************************************)
PaintDownPositions == {Pt(100, 100), Pt(900, 100)}

PaintMovePositions == {Pt(300, 100), Pt(700, 100)}

YDown ==
    /\ Settled
    /\ \E pos \in PaintDownPositions : EvPointerDown("frame", 2, pos, 0)
    /\ GestureBounded'

YMove ==
    /\ Settled
    /\ PointsBounded
    /\ \E pos \in PaintMovePositions : EvPointerMove("frame", 2, pos)

YUp == Settled /\ EvPointerUp("frame", 2)

YToggleCompare == Settled /\ Ev("frame", "toggleCompare", toggleCompare)

YLoadReference ==
    /\ Settled
    /\ referenceImage = Null
    /\ \E img \in FrameImages :
           EvLoader("frame", "refImgOnload",
                    refImgOnload(FileClosure(img)) /\ UNCHANGED loaderVars)

YRender == Render /\ mounted' = mounted

YTick == Tick /\ mounted' = mounted

NextPaint ==
    \/ YDown
    \/ YMove
    \/ YUp
    \/ YToggleCompare
    \/ YLoadReference
    \/ YRender
    \/ YTick

SpecPaint == Init /\ [][NextPaint]_vars

(***************************************************************************)
(* Properties of SpecPaint                                                 *)
(***************************************************************************)
\* C32: a frame painted in comparison mode shows, in the right region, the
\* right pane's committed strokes in insertion order followed by its
\* in-progress stroke, and in the left region the left pane's, whether or
\* not the pane has an image.
C32_InkPaintedWithoutImage ==
    \A i \in 1..Len(shown) :
        shown[i].isComparing =>
            /\ shown[i].left.strokes
                   = paths \o (IF currentPath = Null THEN << >> ELSE <<currentPath>>)
            /\ shown[i].right.strokes
                   = refPaths \o (IF currentRefPath = Null THEN << >> ELSE <<currentRefPath>>)

(***************************************************************************)
(* SpecWindow: the window of snapToEdge.  It is called on images of        *)
(* 20 x 8, 5 x 5, 4 x 6 and 3 x 3 pixels with cursors inside the image, on *)
(* its border, half a pixel and two pixels outside it, and far from it.    *)
(***************************************************************************)
WindowImages ==
    {[id |-> 7, width |-> 20, height |-> 8], [id |-> 9, width |-> 5, height |-> 5],
     [id |-> 10, width |-> 4, height |-> 6], [id |-> 11, width |-> 3, height |-> 3]}

WindowXs == {R(-30), R(-12), Q(-21, 2), R(-10), R(-2), R(0), R(2), Q(5, 2), R(10), R(12)}

WindowYs == {R(-6), R(-4), R(0), Q(5, 2), R(4)}

Probe ==
    /\ snap = Null
    /\ \E x \in WindowXs, y \in WindowYs, img \in WindowImages :
           /\ snap' = [in  |-> [x |-> x, y |-> y, image |-> img, prevPoints |-> Null],
                       out |-> snapToEdge(x, y, img, Null)]
           /\ CacheAfterSnap([x |-> x, y |-> y, image |-> img, prevPoints |-> Null])
    /\ UNCHANGED <<inkVars, viewVars, strokeVars, pointerVars, uiVars, imageVars,
                   loaderVars, frameVars,
                   pressed, law, gesture, event, viewSteps, shown, calls, pinch, heap, workerVars>>

NextWindow == Probe

SpecWindow == Init /\ [][NextWindow]_vars

(***************************************************************************)
(* Properties of SpecWindow                                                *)
(***************************************************************************)
\* Whether the pixel p is inside the rectangle [x, y, w, h]
Inside(p, r) == r.x <= p.x /\ p.x < r.x + r.w /\ r.y <= p.y /\ p.y < r.y + r.h

\* The candidate pixels of a window
Candidates(win) ==
    {Pt(px, py) : px \in win.startX..(win.endX - 1), py \in win.startY..(win.endY - 1)}

\* C33: in a call of snapToEdge with an image, every candidate pixel and
\* every pixel read for its gradients is inside the extracted rectangle and
\* inside the image; if the window is at most 2 wide or high the call returns
\* the point it was given and the analysis canvas has not been touched.
C33_ReadsInsideWindow ==
    snap # Null =>
        \E win \in {SnapWindow(snap.in.x, snap.in.y, snap.in.image)} :
            IF win.endX - win.startX <= 2 \/ win.endY - win.startY <= 2
            THEN /\ snap.out = WPt(snap.in.x, snap.in.y)
                 /\ analysisImageRef = Null
                 /\ analysisCanvas = Null
            ELSE /\ analysisCanvas = snap.in.image
                 /\ \A p \in Candidates(win) \cup PixelReads(win) :
                        /\ Inside(p, PadWindow(snap.in.image, win))
                        /\ Inside(p, [x |-> 0, y |-> 0, w |-> snap.in.image.width,
                                      h |-> snap.in.image.height])

\* A call with the cursor on the left border of the 20 x 8 image: the window
\* starts at column 1 and the reads reach column 0
C33_Witness ==
    /\ snap # Null
    /\ snap.in.image.id = 7
    /\ snap.in.x = R(-10)
    /\ analysisCanvas = snap.in.image
    /\ Pt(0, 1) \in PixelReads(SnapWindow(snap.in.x, snap.in.y, snap.in.image))

\* A call on the 5 x 5 image, whose window is 3 wide and high at most, reads
\* pixels of the last column; one on the 4 x 6 image reads none
C33_WitnessSmall ==
    /\ snap # Null
    /\ snap.in.image.id = 9
    /\ analysisCanvas = snap.in.image
    /\ Pt(4, 2) \in PixelReads(SnapWindow(snap.in.x, snap.in.y, snap.in.image))

C33_WitnessNarrow ==
    /\ snap # Null
    /\ snap.in.image.id = 10
    /\ snap.in.x = R(0)
    /\ analysisCanvas = Null

(***************************************************************************)
(* SpecWorker: the service worker.  It is installed over the cache of the  *)
(* version before, activated, and then handles fetch events for a          *)
(* navigation, a precached asset and the bundle, which is not precached,   *)
(* while the network answers or fails and the server publishes new         *)
(* versions of the site.                                                   *)
(***************************************************************************)
MaxEvents == 2

MaxVersion == 3

FetchRequests ==
    {[url |-> "./", mode |-> "navigate"], [url |-> "./icon.svg", mode |-> "no-cors"],
     [url |-> "./assets/index.js", mode |-> "cors"]}

AppUnchanged == UNCHANGED <<progVars, loaderVars, frameVars, envVars>>

ZInstall == SwInstall /\ AppUnchanged

ZActivate == SwActivate /\ AppUnchanged

\* A fetch event is dispatched to the activated worker
ZFetch ==
    /\ worker = "activated"
    /\ Len(fetchEvents) < MaxEvents
    /\ \E request \in FetchRequests :
           fetchEvents' = Append(fetchEvents, FetchListener(request))
    /\ UNCHANGED <<worker, cacheStorage, puts, network>>
    /\ AppUnchanged

ZFetchFulfilled ==
    /\ \E i \in 1..Len(fetchEvents) :
           /\ fetchEvents[i].at = "fetch"
           /\ fetchEvents' = [fetchEvents EXCEPT ![i] = FetchFulfilled(@, network)]
    /\ UNCHANGED <<worker, cacheStorage, puts, network>>
    /\ AppUnchanged

ZFetchRejected ==
    /\ \E i \in 1..Len(fetchEvents) :
           /\ fetchEvents[i].at = "fetch"
           /\ fetchEvents' = [fetchEvents EXCEPT ![i] = FetchRejected(@)]
    /\ UNCHANGED <<worker, cacheStorage, puts, network>>
    /\ AppUnchanged

ZCacheOpened ==
    /\ \E i \in 1..Len(fetchEvents) :
           /\ fetchEvents[i].at = "open"
           /\ fetchEvents' = [fetchEvents EXCEPT ![i] = CacheOpened(@)]
           /\ cacheStorage' = CachesOpen(cacheStorage, CACHE_NAME)
           /\ puts' = Append(puts, [url |-> fetchEvents[i].request.url,
                                    body |-> fetchEvents[i].net])
    /\ UNCHANGED <<worker, network>>
    /\ AppUnchanged

ZCacheMatched ==
    /\ \E i \in 1..Len(fetchEvents) :
           /\ fetchEvents[i].at = "match"
           /\ fetchEvents' = [fetchEvents EXCEPT ![i] =
                                  CacheMatched(@, CachesMatch(cacheStorage, @.request.url))]
    /\ UNCHANGED <<worker, cacheStorage, puts, network>>
    /\ AppUnchanged

\* A cache.put finishes: the entry is written
ZPutDone ==
    /\ \E k \in 1..Len(puts) :
           /\ cacheStorage' = [cacheStorage EXCEPT ![CACHE_NAME][puts[k].url] = puts[k].body]
           /\ puts' = [j \in 1..(Len(puts) - 1) |-> IF j < k THEN puts[j] ELSE puts[j + 1]]
    /\ UNCHANGED <<worker, fetchEvents, network>>
    /\ AppUnchanged

\* The server publishes a new version of the site
ZPublish ==
    /\ network < MaxVersion
    /\ network' = network + 1
    /\ UNCHANGED <<worker, cacheStorage, fetchEvents, puts>>
    /\ AppUnchanged

NextWorker ==
    \/ ZInstall
    \/ ZActivate
    \/ ZFetch
    \/ ZFetchFulfilled
    \/ ZFetchRejected
    \/ ZCacheOpened
    \/ ZCacheMatched
    \/ ZPutDone
    \/ ZPublish

SpecWorker == Init /\ [][NextWorker]_vars

(***************************************************************************)
(* Properties of SpecWorker                                                *)
(***************************************************************************)
\* The events that were answered in this step
Answered(i) == fetchEvents[i].at # "done" /\ fetchEvents'[i].at = "done"

\* C34: a navigation request is always fetched; it is answered with the
\* network's response, a copy of which is put into the current cache, if the
\* fetch is fulfilled, and with what the caches hold for it only if the fetch
\* is rejected.  Any other request is answered with the cached entry, without
\* a fetch and without a put, if the caches hold one; only if they hold none
\* is it fetched, and if the fetch is fulfilled it is answered with the
\* network's response and a copy is put into the current cache.
C34_FetchPolicy ==
    [][\A i \in 1..Len(fetchEvents) :
           Answered(i) =>
               LET e      == fetchEvents'[i]
                   url    == e.request.url
                   cached == CachesMatch(cacheStorage, url)
                   put    == /\ Len(puts') = Len(puts) + 1
                             /\ puts'[Len(puts')] = [url |-> url, body |-> e.net]
                             /\ CACHE_NAME \in DOMAIN cacheStorage'
                   quiet  == puts' = puts /\ cacheStorage' = cacheStorage
               IN  IF e.request.mode = "navigate"
                   THEN /\ e.fetched
                        /\ IF e.failed
                           THEN e.net = 0 /\ e.response = [from |-> "cache", body |-> cached]
                                /\ quiet
                           ELSE e.net > 0 /\ e.response = [from |-> "network", body |-> e.net]
                                /\ put
                   ELSE IF e.matched > 0
                        THEN /\ ~e.fetched /\ e.net = 0
                             /\ e.matched = cached
                             /\ e.response = [from |-> "cache", body |-> cached]
                             /\ quiet
                        ELSE /\ e.matched = 0 /\ e.fetched
                             /\ IF e.failed
                                THEN e.response.from = "error" /\ quiet
                                ELSE e.net > 0
                                     /\ e.response = [from |-> "network", body |-> e.net]
                                     /\ put]_vars

\* A navigation was answered from the network with a version newer than the
\* cached one, and the copy has been written to the cache
C34_Witness ==
    \E i \in 1..Len(fetchEvents) :
        /\ fetchEvents[i].at = "done"
        /\ fetchEvents[i].request.mode = "navigate"
        /\ fetchEvents[i].response = [from |-> "network", body |-> 3]
        /\ cacheStorage[CACHE_NAME]["./"] = 3
        /\ puts = << >>

\* A navigation whose fetch failed was answered with the cached copy
C34_WitnessOffline ==
    \E i \in 1..Len(fetchEvents) :
        /\ fetchEvents[i].at = "done"
        /\ fetchEvents[i].request.mode = "navigate"
        /\ fetchEvents[i].failed
        /\ fetchEvents[i].response = [from |-> "cache", body |-> 2]

\* An asset was answered from the cache, unfetched, while the server had a
\* newer version
C34_WitnessCacheFirst ==
    \E i \in 1..Len(fetchEvents) :
        /\ fetchEvents[i].at = "done"
        /\ fetchEvents[i].request.url = "./icon.svg"
        /\ ~fetchEvents[i].fetched
        /\ fetchEvents[i].response = [from |-> "cache", body |-> 2]
        /\ network = 3

\* The bundle missed the cache, was fetched and stored, and a second request
\* for it was answered from the cache
C34_WitnessMiss ==
    /\ Len(fetchEvents) = 2
    /\ \A i \in 1..2 : fetchEvents[i].at = "done" /\ fetchEvents[i].request.url = "./assets/index.js"
    /\ fetchEvents[1].matched = 0 /\ fetchEvents[1].stored
    /\ fetchEvents[2].matched > 0 /\ ~fetchEvents[2].fetched

====
